---- MODULE Spec2Model ----
(***************************************************************************)
(* Sliding-window rate analyzers of explab: ExpAnalyzer                    *)
(* (src/explab/analyzer/exp.py), HpAnalyzer (src/explab/analyzer/hp.py)    *)
(* and MpAnalyzer (src/explab/analyzer/mp.py).                             *)
(*                                                                         *)
(* One analyzer object is modelled; its class (kind) is fixed when it is   *)
(* constructed.  The three classes share no state, so a property of "each  *)
(* analyzer" is a property of every value of kind.  The analyzer may be    *)
(* driven by its pipeline of the UI (src/explab/ui/main.py): the running   *)
(* flag, the timer and the capture buffers of that pipeline are part of    *)
(* the state, and stay as UI.__init__ leaves them when the analyzer is     *)
(* called directly.                                                        *)
(*                                                                         *)
(* Numbers.  Timestamps are whole seconds.  exp_ratio is the parsed        *)
(* percentage with two decimals divided by 100, i.e. a whole number of     *)
(* 1/RatioScale.  Python floats are modelled by exact rationals, kept as   *)
(* records [tag, num, den] in lowest terms; the same record shape carries  *)
(* None, NaN and +infinity so that every outcome has one type.             *)
(***************************************************************************)
EXTENDS Integers, Sequences, FiniteSets, TLC

VARIABLES
    kind,                  \* "exp" | "hp" | "mp": the class of the analyzer
    max_checkpoints,       \* config.max_checkpoints
    min_checkpoints,       \* config.min_checkpoints
    checkpoints,           \* self.checkpoints
    checkpoint_indicators, \* self.checkpoint_indicators (ExpAnalyzer only)
    last_call,             \* the most recent call on the analyzer and how it ended
    is_running,            \* UI.is_exp_running | is_hp_running | is_mp_running
    timer,                 \* UI.exp_timer | hp_timer | mp_timer
    capture_buffer,        \* UI.hp_capture_buffer | mp_capture_buffer
    ts_buffer,             \* UI.hp_ts_buffer | mp_ts_buffer
    clock,                 \* datetime.datetime.now(), in seconds
    tick                   \* what the most recent timer callback did

\* the state of the UI pipeline that drives the analyzer
ui_vars == <<is_running, timer, capture_buffer, ts_buffer, clock, tick>>

vars == <<kind, max_checkpoints, min_checkpoints, checkpoints,
          checkpoint_indicators, last_call, is_running, timer,
          capture_buffer, ts_buffer, clock, tick>>

(***************************************************************************)
(* Bounds of the model and constants of the program.                       *)
(***************************************************************************)
MaxMinCheckpoints == 3
SecondsPerMinute == 60
RatioScale == 10000
ToleranceNum == 2
ToleranceDen == 100
MinFilterLen == 5
DefaultExpMinCheckpoints == 2

(***************************************************************************)
(* Exact rational arithmetic standing for Python's float arithmetic.       *)
(***************************************************************************)
Abs(x) == IF x < 0 THEN -x ELSE x

RECURSIVE Gcd(_, _)
Gcd(a, b) == IF b = 0 THEN a ELSE Gcd(b, a % b)

Num(n, d) ==
    LET s == IF d < 0 THEN -1 ELSE 1
        g == Gcd(Abs(n), Abs(d))
    IN  [tag |-> "num", num |-> (s * n) \div g, den |-> (s * d) \div g]

None == [tag |-> "None", num |-> 0, den |-> 1]
NaN == [tag |-> "nan", num |-> 0, den |-> 1]
Inf == [tag |-> "inf", num |-> 0, den |-> 1]
IndexError == [tag |-> "IndexError", num |-> 0, den |-> 1]

IsNum(x) == x.tag = "num"
Int2Num(n) == Num(n, 1)
NumLess(a, b) == a.num * b.den < b.num * a.den
NumLeq(a, b) == a.num * b.den <= b.num * a.den
NumAdd(a, b) == Num(a.num * b.den + b.num * a.den, a.den * b.den)
NumSub(a, b) == Num(a.num * b.den - b.num * a.den, a.den * b.den)
NumDiv(a, b) == Num(a.num * b.den, a.den * b.num)
NumAbs(a) == Num(Abs(a.num), a.den)
NumIsZero(a) == a.num = 0
NumPositive(a) == a.num > 0

(***************************************************************************)
(* statistics.median: the middle of the sorted data, or the mean of the    *)
(* two middle values when their number is even.                            *)
(***************************************************************************)
RECURSIVE Insert(_, _)
Insert(x, s) ==
    IF s = <<>> THEN <<x>>
    ELSE IF NumLeq(x, Head(s)) THEN <<x>> \o s
    ELSE <<Head(s)>> \o Insert(x, Tail(s))

RECURSIVE Sorted(_)
Sorted(s) == IF s = <<>> THEN <<>> ELSE Insert(Head(s), Sorted(Tail(s)))

Median(data) ==
    LET d == Sorted(data)
        n == Len(d)
    IN  IF n % 2 = 1 THEN d[(n \div 2) + 1]
        ELSE NumDiv(NumAdd(d[n \div 2], d[(n \div 2) + 1]), Int2Num(2))

(***************************************************************************)
(* Checkpoints.                                                            *)
(***************************************************************************)
ExpCheckpoint(level, exp, exp_ratio, ts) ==
    [level |-> level, exp |-> exp, exp_ratio |-> exp_ratio, ts |-> ts]

HpCheckpoint(current_hp, total_hp, ts) ==
    [current_hp |-> current_hp, total_hp |-> total_hp, ts |-> ts]

MpCheckpoint(current_mp, total_mp, ts) ==
    [current_mp |-> current_mp, total_mp |-> total_mp, ts |-> ts]

\* cp.exp / cp.exp_ratio, for exp_ratio > 0
ImpliedTotal(cp) == Num(cp.exp * RatioScale, cp.exp_ratio)

(***************************************************************************)
(* ExpAnalyzer._validate_checkpoints.  The result is the new value of      *)
(* checkpoint_indicators, or the exception that leaves the attribute as it *)
(* was: the flags are built in a local list and assigned at the end.       *)
(***************************************************************************)
Indices(cps) == [i \in 1..Len(cps) |-> i]

\* idx_list of the group of one level: its members with exp_ratio > 0
UsableIdx(cps, level) ==
    SelectSeq(Indices(cps),
              LAMBDA i: cps[i].level = level /\ cps[i].exp_ratio > 0)

\* total_exp_list of the group of one level
TotalExpList(cps, level) ==
    LET idx_list == UsableIdx(cps, level)
    IN  [k \in 1..Len(idx_list) |-> ImpliedTotal(cps[idx_list[k]])]

\* the consensus taken as the mean of the implied totals
Consensus_Mean(cps, level) ==
    LET totals == TotalExpList(cps, level)
        sum[k \in 0..Len(totals)] ==
            IF k = 0 THEN Int2Num(0) ELSE NumAdd(sum[k - 1], totals[k])
    IN  NumDiv(sum[Len(totals)], Int2Num(Len(totals)))

Consensus(cps, level) == Median(TotalExpList(cps, level))

\* abs(total_exp - consensus) / consensus > tolerance_exp_ratio, consensus # 0
Deviates(total_exp, consensus) ==
    NumLess(Num(ToleranceNum, ToleranceDen),
            NumDiv(NumAbs(NumSub(total_exp, consensus)), consensus))

\* level_groups' keys: the levels present in the window
LevelsOf(cps) == {cps[i].level : i \in 1..Len(cps)}

VotingLevels(cps) ==
    {level \in LevelsOf(cps) : Len(UsableIdx(cps, level)) >= 2}

FilterWith(cps, voting, consensus) ==
    IF \E level \in voting : NumIsZero(consensus[level])
    THEN [raised |-> "ZeroDivisionError", indicators |-> <<>>]
    ELSE [raised |-> "none",
          indicators |->
              [i \in 1..Len(cps) |->
                  IF cps[i].level \in voting /\ cps[i].exp_ratio > 0
                  THEN ~Deviates(ImpliedTotal(cps[i]), consensus[cps[i].level])
                  ELSE TRUE]]

FilterVoting(cps, voting) ==
    CHOOSE r \in {FilterWith(cps, voting, consensus) :
                      consensus \in {[level \in voting |->
                                          Consensus(cps, level)]}} : TRUE

\* the filter run on every window, however short
ValidateCheckpoints_NoMinLen(cps) ==
    CHOOSE r \in {FilterVoting(cps, voting) :
                      voting \in {VotingLevels(cps)}} : TRUE

ValidateCheckpoints(cps) ==
    IF Len(cps) < MinFilterLen
    THEN [raised |-> "none", indicators |-> [i \in 1..Len(cps) |-> TRUE]]
    ELSE CHOOSE r \in {FilterVoting(cps, voting) :
                           voting \in {VotingLevels(cps)}} : TRUE

(***************************************************************************)
(* ExpAnalyzer._compute_exp_per_minute.  Python index i is i - 1 here.     *)
(* Reading checkpoint_indicators[i] past the end of the list raises        *)
(* IndexError.  time_diff is kept in seconds and converted at the end.     *)
(***************************************************************************)
\* the loop with negative differences clamped to 0
RECURSIVE ExpRateLoop_Clamped(_, _, _, _, _)
ExpRateLoop_Clamped(cps, ind, i, exp_diff, time_diff) ==
    IF i > Len(cps)
    THEN [raised |-> FALSE, exp_diff |-> exp_diff, time_diff |-> time_diff]
    ELSE IF i > Len(ind)
    THEN [raised |-> TRUE, exp_diff |-> exp_diff, time_diff |-> time_diff]
    ELSE IF ~(ind[i] /\ ind[i - 1])
    THEN ExpRateLoop_Clamped(cps, ind, i + 1, exp_diff, time_diff)
    ELSE IF cps[i].level # cps[i - 1].level
    THEN ExpRateLoop_Clamped(cps, ind, i + 1, exp_diff, time_diff)
    ELSE ExpRateLoop_Clamped(cps, ind, i + 1,
             exp_diff + (IF cps[i].exp > cps[i - 1].exp
                         THEN cps[i].exp - cps[i - 1].exp ELSE 0),
             time_diff + (cps[i].ts - cps[i - 1].ts))

\* the loop without the test of the two levels
RECURSIVE ExpRateLoop_NoLevelCheck(_, _, _, _, _)
ExpRateLoop_NoLevelCheck(cps, ind, i, exp_diff, time_diff) ==
    IF i > Len(cps)
    THEN [raised |-> FALSE, exp_diff |-> exp_diff, time_diff |-> time_diff]
    ELSE IF i > Len(ind)
    THEN [raised |-> TRUE, exp_diff |-> exp_diff, time_diff |-> time_diff]
    ELSE IF ~(ind[i] /\ ind[i - 1])
    THEN ExpRateLoop_NoLevelCheck(cps, ind, i + 1, exp_diff, time_diff)
    ELSE ExpRateLoop_NoLevelCheck(cps, ind, i + 1,
             exp_diff + (cps[i].exp - cps[i - 1].exp),
             time_diff + (cps[i].ts - cps[i - 1].ts))

\* the loop testing the flag of the later checkpoint of a pair only
RECURSIVE ExpRateLoop_CurrentOnly(_, _, _, _, _)
ExpRateLoop_CurrentOnly(cps, ind, i, exp_diff, time_diff) ==
    IF i > Len(cps)
    THEN [raised |-> FALSE, exp_diff |-> exp_diff, time_diff |-> time_diff]
    ELSE IF i > Len(ind)
    THEN [raised |-> TRUE, exp_diff |-> exp_diff, time_diff |-> time_diff]
    ELSE IF ~ind[i]
    THEN ExpRateLoop_CurrentOnly(cps, ind, i + 1, exp_diff, time_diff)
    ELSE IF cps[i].level # cps[i - 1].level
    THEN ExpRateLoop_CurrentOnly(cps, ind, i + 1, exp_diff, time_diff)
    ELSE ExpRateLoop_CurrentOnly(cps, ind, i + 1,
             exp_diff + (cps[i].exp - cps[i - 1].exp),
             time_diff + (cps[i].ts - cps[i - 1].ts))

RECURSIVE ExpRateLoop(_, _, _, _, _)
ExpRateLoop(cps, ind, i, exp_diff, time_diff) ==
    IF i > Len(cps)
    THEN [raised |-> FALSE, exp_diff |-> exp_diff, time_diff |-> time_diff]
    ELSE IF i > Len(ind)
    THEN [raised |-> TRUE, exp_diff |-> exp_diff, time_diff |-> time_diff]
    ELSE IF ~(ind[i] /\ ind[i - 1])
    THEN ExpRateLoop(cps, ind, i + 1, exp_diff, time_diff)
    ELSE IF cps[i].level # cps[i - 1].level
    THEN ExpRateLoop(cps, ind, i + 1, exp_diff, time_diff)
    ELSE ExpRateLoop(cps, ind, i + 1,
                     exp_diff + (cps[i].exp - cps[i - 1].exp),
                     time_diff + (cps[i].ts - cps[i - 1].ts))

ComputeExpPerMinute(cps, ind) ==
    LET r == ExpRateLoop(cps, ind, 2, 0, 0)
    IN  IF r.raised THEN IndexError
        ELSE IF r.time_diff > 0
        THEN Num(r.exp_diff * SecondsPerMinute, r.time_diff)
        ELSE None

\* the total estimate taken from the oldest checkpoint of the window
ComputeTotalExp_Oldest(cps) ==
    IF Len(cps) = 0 THEN None
    ELSE IF cps[1].exp_ratio <= 0 THEN None
    ELSE ImpliedTotal(cps[1])

\* ExpAnalyzer._compute_total_exp
ComputeTotalExp(cps) ==
    IF Len(cps) = 0 THEN None
    ELSE IF cps[Len(cps)].exp_ratio <= 0 THEN None
    ELSE ImpliedTotal(cps[Len(cps)])

\* the projection testing the rate before the remaining experience
ComputeMinutesToNextLevel_RateFirst(cps, exp_per_minute) ==
    IF Len(cps) = 0 THEN None
    ELSE LET last_checkpoint == cps[Len(cps)]
             total_exp == ComputeTotalExp(cps)
         IN  IF ~IsNum(total_exp) THEN None
             ELSE LET remaining_exp ==
                          NumSub(total_exp, Int2Num(last_checkpoint.exp))
                  IN  IF exp_per_minute.num <= 0 THEN Inf
                      ELSE IF remaining_exp.num <= 0 THEN Int2Num(0)
                      ELSE NumDiv(remaining_exp, exp_per_minute)

\* ExpAnalyzer._compute_minutes_to_next_level
ComputeMinutesToNextLevel(cps, exp_per_minute) ==
    IF Len(cps) = 0 THEN None
    ELSE LET last_checkpoint == cps[Len(cps)]
             total_exp == ComputeTotalExp(cps)
         IN  IF ~IsNum(total_exp) THEN None
             ELSE LET remaining_exp ==
                          NumSub(total_exp, Int2Num(last_checkpoint.exp))
                  IN  IF remaining_exp.num <= 0 THEN Int2Num(0)
                      ELSE IF exp_per_minute.num <= 0 THEN Inf
                      ELSE NumDiv(remaining_exp, exp_per_minute)

(***************************************************************************)
(* How a call ended.  outcome is "ok" (a call that returns nothing),       *)
(* "None", "result", or the name of the exception raised.  The result's ts *)
(* (datetime.now()) is left out: nothing reads it.                         *)
(***************************************************************************)
NoArg == [none |-> TRUE]
NoResult == [none |-> TRUE]

Call(op, arg, outcome, result) ==
    [op |-> op, arg |-> arg, outcome |-> outcome, result |-> result]

\* what a timer callback did: whether it was invoked (fired), passed the
\* test of the running flag (ran), got a capture (captured), parsed
\* checkpoints out of it (parsed), which analyzer calls it made, in order,
\* and the exception that ended it, if any
Tick(fired, ran, captured, parsed, calls, raised) ==
    [fired |-> fired, ran |-> ran, captured |-> captured, parsed |-> parsed,
     calls |-> calls, raised |-> raised]

\* no callback has been invoked
NoTick == Tick(FALSE, FALSE, FALSE, FALSE, <<>>, "none")

\* the pipeline as UI.__init__ leaves it
UiConstructed ==
    /\ is_running = FALSE
    /\ timer = "None"
    /\ capture_buffer = <<>>
    /\ ts_buffer = <<>>
    /\ clock = 0
    /\ tick = NoTick

ExpAnalyzerResult(current_exp, current_level, exp_per_minute, exp_ratio_per_minute, minutes_to_next_level) ==
    [current_exp |-> current_exp, current_level |-> current_level,
     exp_per_minute |-> exp_per_minute,
     exp_ratio_per_minute |-> exp_ratio_per_minute,
     minutes_to_next_level |-> minutes_to_next_level]

\* get_result testing min_checkpoints before the empty window, as
\* HpAnalyzer.get_result does
ExpGetResultOutcome_MinFirst(cps, ind, min) ==
    IF Len(cps) < min THEN Call("get_result", NoArg, "None", NoResult)
    ELSE IF Len(cps) = 0
    THEN Call("get_result", NoArg, "ValueError", NoResult)
    ELSE LET last_checkpoint == cps[Len(cps)]
             exp_per_minute == ComputeExpPerMinute(cps, ind)
             total_exp == ComputeTotalExp(cps)
             ratio0 == IF IsNum(total_exp) /\ ~NumIsZero(total_exp)
                       THEN NumDiv(exp_per_minute, total_exp)
                       ELSE NaN
             exp_ratio_per_minute ==
                 IF NumIsZero(exp_per_minute) THEN Int2Num(0) ELSE ratio0
             minutes0 == ComputeMinutesToNextLevel(cps, exp_per_minute)
             minutes_to_next_level ==
                 IF minutes0 = None THEN NaN ELSE minutes0
         IN  IF exp_per_minute = IndexError
             THEN Call("get_result", NoArg, "IndexError", NoResult)
             ELSE IF exp_per_minute = None
             THEN Call("get_result", NoArg, "None", NoResult)
             ELSE Call("get_result", NoArg, "result",
                       ExpAnalyzerResult(last_checkpoint.exp,
                                         last_checkpoint.level,
                                         exp_per_minute,
                                         exp_ratio_per_minute,
                                         minutes_to_next_level))

\* get_result without the test of min_checkpoints
ExpGetResultOutcome_NoMinCheck(cps, ind, min) ==
    IF Len(cps) = 0 THEN Call("get_result", NoArg, "ValueError", NoResult)
    ELSE LET last_checkpoint == cps[Len(cps)]
             exp_per_minute == ComputeExpPerMinute(cps, ind)
             total_exp == ComputeTotalExp(cps)
             ratio0 == IF IsNum(total_exp) /\ ~NumIsZero(total_exp)
                       THEN NumDiv(exp_per_minute, total_exp)
                       ELSE NaN
             exp_ratio_per_minute ==
                 IF NumIsZero(exp_per_minute) THEN Int2Num(0) ELSE ratio0
             minutes0 == ComputeMinutesToNextLevel(cps, exp_per_minute)
             minutes_to_next_level ==
                 IF minutes0 = None THEN NaN ELSE minutes0
         IN  IF exp_per_minute = IndexError
             THEN Call("get_result", NoArg, "IndexError", NoResult)
             ELSE IF exp_per_minute = None
             THEN Call("get_result", NoArg, "None", NoResult)
             ELSE Call("get_result", NoArg, "result",
                       ExpAnalyzerResult(last_checkpoint.exp,
                                         last_checkpoint.level,
                                         exp_per_minute,
                                         exp_ratio_per_minute,
                                         minutes_to_next_level))

\* get_result returning None when the total estimate is undefined
ExpGetResultOutcome_NoneWithoutTotal(cps, ind, min) ==
    IF Len(cps) = 0 THEN Call("get_result", NoArg, "ValueError", NoResult)
    ELSE IF Len(cps) < min THEN Call("get_result", NoArg, "None", NoResult)
    ELSE LET last_checkpoint == cps[Len(cps)]
             exp_per_minute == ComputeExpPerMinute(cps, ind)
             total_exp == ComputeTotalExp(cps)
             ratio0 == IF IsNum(total_exp) /\ ~NumIsZero(total_exp)
                       THEN NumDiv(exp_per_minute, total_exp)
                       ELSE NaN
             exp_ratio_per_minute ==
                 IF NumIsZero(exp_per_minute) THEN Int2Num(0) ELSE ratio0
             minutes0 == ComputeMinutesToNextLevel(cps, exp_per_minute)
             minutes_to_next_level ==
                 IF minutes0 = None THEN NaN ELSE minutes0
         IN  IF exp_per_minute = IndexError
             THEN Call("get_result", NoArg, "IndexError", NoResult)
             ELSE IF exp_per_minute = None
             THEN Call("get_result", NoArg, "None", NoResult)
             ELSE IF ~IsNum(total_exp)
             THEN Call("get_result", NoArg, "None", NoResult)
             ELSE Call("get_result", NoArg, "result",
                       ExpAnalyzerResult(last_checkpoint.exp,
                                         last_checkpoint.level,
                                         exp_per_minute,
                                         exp_ratio_per_minute,
                                         minutes_to_next_level))

\* ExpAnalyzer.get_result as a function of the analyzer's state
ExpGetResultOutcome(cps, ind, min) ==
    IF Len(cps) = 0 THEN Call("get_result", NoArg, "ValueError", NoResult)
    ELSE IF Len(cps) < min THEN Call("get_result", NoArg, "None", NoResult)
    ELSE LET last_checkpoint == cps[Len(cps)]
             exp_per_minute == ComputeExpPerMinute(cps, ind)
             total_exp == ComputeTotalExp(cps)
             ratio0 == IF IsNum(total_exp) /\ ~NumIsZero(total_exp)
                       THEN NumDiv(exp_per_minute, total_exp)
                       ELSE NaN
             exp_ratio_per_minute ==
                 IF NumIsZero(exp_per_minute) THEN Int2Num(0) ELSE ratio0
             minutes0 == ComputeMinutesToNextLevel(cps, exp_per_minute)
             minutes_to_next_level ==
                 IF minutes0 = None THEN NaN ELSE minutes0
         IN  IF exp_per_minute = IndexError
             THEN Call("get_result", NoArg, "IndexError", NoResult)
             ELSE IF exp_per_minute = None
             THEN Call("get_result", NoArg, "None", NoResult)
             ELSE Call("get_result", NoArg, "result",
                       ExpAnalyzerResult(last_checkpoint.exp,
                                         last_checkpoint.level,
                                         exp_per_minute,
                                         exp_ratio_per_minute,
                                         minutes_to_next_level))

(***************************************************************************)
(* HpAnalyzer._compute_hp_lost_per_minute and HpAnalyzer.get_result.       *)
(***************************************************************************)
\* the loop subtracting gains from the loss
RECURSIVE HpLossLoop_Signed(_, _, _, _)
HpLossLoop_Signed(cps, i, hp_lost, time_diff_seconds) ==
    IF i > Len(cps)
    THEN [hp_lost |-> hp_lost, time_diff_seconds |-> time_diff_seconds]
    ELSE HpLossLoop_Signed(cps, i + 1,
             hp_lost + (cps[i - 1].current_hp - cps[i].current_hp),
             time_diff_seconds + (cps[i].ts - cps[i - 1].ts))

RECURSIVE HpLossLoop(_, _, _, _)
HpLossLoop(cps, i, hp_lost, time_diff_seconds) ==
    IF i > Len(cps)
    THEN [hp_lost |-> hp_lost, time_diff_seconds |-> time_diff_seconds]
    ELSE LET prev_checkpoint == cps[i - 1]
             curr_checkpoint == cps[i]
         IN  HpLossLoop(cps, i + 1,
                 IF curr_checkpoint.current_hp < prev_checkpoint.current_hp
                 THEN hp_lost + (prev_checkpoint.current_hp
                                 - curr_checkpoint.current_hp)
                 ELSE hp_lost,
                 time_diff_seconds + (curr_checkpoint.ts - prev_checkpoint.ts))

\* the rate with 0.0 returned when no time has elapsed
ComputeHpLostPerMinute_ZeroOnNoTime(cps) ==
    IF Len(cps) < 2 THEN None
    ELSE LET r == HpLossLoop(cps, 2, 0, 0)
         IN  IF r.time_diff_seconds > 0
             THEN NumDiv(Int2Num(r.hp_lost),
                         Num(r.time_diff_seconds, SecondsPerMinute))
             ELSE Int2Num(0)

\* the rate with the elapsed time tested by >= 0
ComputeHpLostPerMinute_NonNegativeTime(cps) ==
    IF Len(cps) < 2 THEN None
    ELSE LET r == HpLossLoop(cps, 2, 0, 0)
         IN  IF r.time_diff_seconds >= 0
             THEN LET time_diff_minutes ==
                          Num(r.time_diff_seconds, SecondsPerMinute)
                  IN  IF NumPositive(time_diff_minutes)
                      THEN NumDiv(Int2Num(r.hp_lost), time_diff_minutes)
                      ELSE Int2Num(0)
             ELSE None

ComputeHpLostPerMinute(cps) ==
    IF Len(cps) < 2 THEN None
    ELSE LET r == HpLossLoop(cps, 2, 0, 0)
         IN  IF r.time_diff_seconds > 0
             THEN LET time_diff_minutes ==
                          Num(r.time_diff_seconds, SecondsPerMinute)
                  IN  IF NumPositive(time_diff_minutes)
                      THEN NumDiv(Int2Num(r.hp_lost), time_diff_minutes)
                      ELSE Int2Num(0)
             ELSE None

HpAnalyzerResult(current_hp, total_hp, hp_lost_per_minute) ==
    [current_hp |-> current_hp, total_hp |-> total_hp,
     hp_lost_per_minute |-> hp_lost_per_minute]

\* checkpoints[-1] on an empty list raises IndexError (only when min <= 0)
HpGetResultOutcome(cps, min) ==
    IF Len(cps) < min THEN Call("get_result", NoArg, "None", NoResult)
    ELSE IF Len(cps) = 0
    THEN Call("get_result", NoArg, "IndexError", NoResult)
    ELSE LET last_checkpoint == cps[Len(cps)]
             hp_lost_per_minute == ComputeHpLostPerMinute(cps)
         IN  IF hp_lost_per_minute = None
             THEN Call("get_result", NoArg, "None", NoResult)
             ELSE Call("get_result", NoArg, "result",
                       HpAnalyzerResult(last_checkpoint.current_hp,
                                        last_checkpoint.total_hp,
                                        hp_lost_per_minute))

(***************************************************************************)
(* MpAnalyzer._compute_mp_lost_per_minute and MpAnalyzer.get_result.       *)
(***************************************************************************)
\* the loop counting mana gained as well as mana lost
RECURSIVE MpLossLoop_CountsGains(_, _, _, _)
MpLossLoop_CountsGains(cps, i, mp_lost, time_diff_seconds) ==
    IF i > Len(cps)
    THEN [mp_lost |-> mp_lost, time_diff_seconds |-> time_diff_seconds]
    ELSE LET prev_checkpoint == cps[i - 1]
             curr_checkpoint == cps[i]
         IN  MpLossLoop_CountsGains(cps, i + 1,
                 mp_lost + Abs(prev_checkpoint.current_mp
                               - curr_checkpoint.current_mp),
                 time_diff_seconds + (curr_checkpoint.ts - prev_checkpoint.ts))

RECURSIVE MpLossLoop(_, _, _, _)
MpLossLoop(cps, i, mp_lost, time_diff_seconds) ==
    IF i > Len(cps)
    THEN [mp_lost |-> mp_lost, time_diff_seconds |-> time_diff_seconds]
    ELSE LET prev_checkpoint == cps[i - 1]
             curr_checkpoint == cps[i]
         IN  MpLossLoop(cps, i + 1,
                 IF curr_checkpoint.current_mp < prev_checkpoint.current_mp
                 THEN mp_lost + (prev_checkpoint.current_mp
                                 - curr_checkpoint.current_mp)
                 ELSE mp_lost,
                 time_diff_seconds + (curr_checkpoint.ts - prev_checkpoint.ts))

ComputeMpLostPerMinute(cps) ==
    IF Len(cps) < 2 THEN None
    ELSE LET r == MpLossLoop(cps, 2, 0, 0)
         IN  IF r.time_diff_seconds > 0
             THEN LET time_diff_minutes ==
                          Num(r.time_diff_seconds, SecondsPerMinute)
                  IN  IF NumPositive(time_diff_minutes)
                      THEN NumDiv(Int2Num(r.mp_lost), time_diff_minutes)
                      ELSE Int2Num(0)
             ELSE None

MpAnalyzerResult(current_mp, total_mp, mp_lost_per_minute) ==
    [current_mp |-> current_mp, total_mp |-> total_mp,
     mp_lost_per_minute |-> mp_lost_per_minute]

MpGetResultOutcome(cps, min) ==
    IF Len(cps) < min THEN Call("get_result", NoArg, "None", NoResult)
    ELSE IF Len(cps) = 0
    THEN Call("get_result", NoArg, "IndexError", NoResult)
    ELSE LET last_checkpoint == cps[Len(cps)]
             mp_lost_per_minute == ComputeMpLostPerMinute(cps)
         IN  IF mp_lost_per_minute = None
             THEN Call("get_result", NoArg, "None", NoResult)
             ELSE Call("get_result", NoArg, "result",
                       MpAnalyzerResult(last_checkpoint.current_mp,
                                        last_checkpoint.total_mp,
                                        mp_lost_per_minute))

(***************************************************************************)
(* The calls a client makes.  Every checkpoint offered is well formed:     *)
(* level >= 0, exp >= 0, 0 <= exp_ratio <= 1; current >= 0, total > 0.     *)
(* Timestamps are the caller's: the analyzers accept them in any order.    *)
(***************************************************************************)
\* the window capacities tried: 1, 2 and the smallest at which the filter runs
Capacities == {1, 2, MinFilterLen}

\* ExpCheckpoint(level, exp, exp_ratio in 1/RatioScale, ts in seconds):
\* implied totals 0, 1000, 1000 and none (exp_ratio = 0, another level)
ExpCheckpoints ==
    {ExpCheckpoint(10, 0, 5000, 0),
     ExpCheckpoint(10, 100, 1000, 0),
     ExpCheckpoint(10, 100, 1000, SecondsPerMinute),
     ExpCheckpoint(11, 50, 0, SecondsPerMinute)}

HpCheckpoints ==
    {HpCheckpoint(current, 200, ts) :
         current \in {100, 200}, ts \in {0, SecondsPerMinute}}

MpCheckpoints ==
    {MpCheckpoint(current, 200, ts) :
         current \in {100, 200}, ts \in {0, SecondsPerMinute}}

Init ==
    /\ kind \in {"exp", "hp", "mp"}
    /\ UiConstructed
    /\ max_checkpoints \in Capacities
    /\ min_checkpoints \in 1..MaxMinCheckpoints
    /\ checkpoints = <<>>
    /\ checkpoint_indicators = <<>>
    /\ last_call = Call("init", NoArg, "ok", NoResult)

\* reset emptying the checkpoints only
ExpReset_KeepsIndicators ==
    /\ kind = "exp"
    /\ checkpoints' = <<>>
    /\ last_call' = Call("reset", NoArg, "ok", NoResult)
    /\ UNCHANGED <<kind, max_checkpoints, min_checkpoints,
                   checkpoint_indicators>>
    /\ UNCHANGED ui_vars

\* ExpAnalyzer.reset
ExpReset ==
    /\ kind = "exp"
    /\ checkpoints' = <<>>
    /\ checkpoint_indicators' = <<>>
    /\ last_call' = Call("reset", NoArg, "ok", NoResult)
    /\ UNCHANGED <<kind, max_checkpoints, min_checkpoints>>
    /\ UNCHANGED ui_vars

\* an incremental filter: the flags already held are kept and only the flag
\* of the checkpoint just appended is taken from the new run
ExpAfterValidate_Incremental(cps1, ind1, v) ==
    IF v.raised = "none"
    THEN [checkpoints |-> cps1,
          indicators |-> IF ind1 = <<>> THEN v.indicators
                         ELSE Append(ind1, v.indicators[Len(cps1)]),
          outcome |-> "ok"]
    ELSE [checkpoints |-> cps1, indicators |-> ind1, outcome |-> v.raised]

\* a filter whose verdicts stick: a checkpoint once flagged invalid stays
\* invalid for as long as it is in the window
ExpAfterValidate_Sticky(cps1, ind1, v) ==
    IF v.raised = "none"
    THEN [checkpoints |-> cps1,
          indicators |-> [i \in 1..Len(cps1) |->
                             /\ v.indicators[i]
                             /\ i <= Len(ind1) => ind1[i]],
          outcome |-> "ok"]
    ELSE [checkpoints |-> cps1, indicators |-> ind1, outcome |-> v.raised]

\* what _validate_checkpoints leaves: the new flags, or on an exception
\* the flags as they were
ExpAfterValidate(cps1, ind1, v) ==
    IF v.raised = "none"
    THEN [checkpoints |-> cps1, indicators |-> v.indicators, outcome |-> "ok"]
    ELSE [checkpoints |-> cps1, indicators |-> ind1, outcome |-> v.raised]

\* add_checkpoint evicting only when the window is over capacity (> for >=)
ExpAddCheckpointEffect_OffByOne(cps, ind, max, checkpoint) ==
    IF Len(cps) > max /\ ind = <<>>
    THEN [checkpoints |-> Tail(cps), indicators |-> ind,
          outcome |-> "IndexError"]
    ELSE LET full == Len(cps) > max
             cps1 == Append(IF full THEN Tail(cps) ELSE cps, checkpoint)
             ind1 == IF full THEN Tail(ind) ELSE ind
         IN  CHOOSE r \in {ExpAfterValidate(cps1, ind1, v) :
                               v \in {ValidateCheckpoints(cps1)}} : TRUE

\* ExpAnalyzer.add_checkpoint: the state and the outcome it leaves
ExpAddCheckpointEffect(cps, ind, max, checkpoint) ==
    IF Len(cps) >= max /\ cps = <<>>
    THEN [checkpoints |-> cps, indicators |-> ind, outcome |-> "IndexError"]
    ELSE IF Len(cps) >= max /\ ind = <<>>
    THEN [checkpoints |-> Tail(cps), indicators |-> ind,
          outcome |-> "IndexError"]
    ELSE LET full == Len(cps) >= max
             cps1 == Append(IF full THEN Tail(cps) ELSE cps, checkpoint)
             ind1 == IF full THEN Tail(ind) ELSE ind
         IN  CHOOSE r \in {ExpAfterValidate(cps1, ind1, v) :
                               v \in {ValidateCheckpoints(cps1)}} : TRUE

ExpAddCheckpoint(checkpoint) ==
    /\ kind = "exp"
    /\ \E e \in {ExpAddCheckpointEffect(checkpoints, checkpoint_indicators,
                                       max_checkpoints, checkpoint)} :
           /\ checkpoints' = e.checkpoints
           /\ checkpoint_indicators' = e.indicators
           /\ last_call' = Call("add_checkpoint", checkpoint, e.outcome,
                                NoResult)
    /\ UNCHANGED <<kind, max_checkpoints, min_checkpoints>>
    /\ UNCHANGED ui_vars

ExpGetResult ==
    /\ kind = "exp"
    /\ last_call' = ExpGetResultOutcome(checkpoints, checkpoint_indicators,
                                        min_checkpoints)
    /\ UNCHANGED <<kind, max_checkpoints, min_checkpoints, checkpoints,
                   checkpoint_indicators>>
    /\ UNCHANGED ui_vars

\* HpAnalyzer.reset
HpReset ==
    /\ kind = "hp"
    /\ checkpoints' = <<>>
    /\ last_call' = Call("reset", NoArg, "ok", NoResult)
    /\ UNCHANGED <<kind, max_checkpoints, min_checkpoints,
                   checkpoint_indicators>>
    /\ UNCHANGED ui_vars

\* add_checkpoint putting the new checkpoint in front of the window
HpAddCheckpointEffect_Prepend(cps, max, checkpoint) ==
    IF Len(cps) >= max /\ cps = <<>>
    THEN [checkpoints |-> cps, outcome |-> "IndexError"]
    ELSE [checkpoints |->
              <<checkpoint>> \o (IF Len(cps) >= max THEN Tail(cps) ELSE cps),
          outcome |-> "ok"]

\* HpAnalyzer.add_checkpoint
HpAddCheckpointEffect(cps, max, checkpoint) ==
    IF Len(cps) >= max /\ cps = <<>>
    THEN [checkpoints |-> cps, outcome |-> "IndexError"]
    ELSE [checkpoints |->
              Append(IF Len(cps) >= max THEN Tail(cps) ELSE cps, checkpoint),
          outcome |-> "ok"]

HpAddCheckpoint(checkpoint) ==
    /\ kind = "hp"
    /\ \E e \in {HpAddCheckpointEffect(checkpoints, max_checkpoints,
                                      checkpoint)} :
           /\ checkpoints' = e.checkpoints
           /\ last_call' = Call("add_checkpoint", checkpoint, e.outcome,
                                NoResult)
    /\ UNCHANGED <<kind, max_checkpoints, min_checkpoints,
                   checkpoint_indicators>>
    /\ UNCHANGED ui_vars

HpGetResult ==
    /\ kind = "hp"
    /\ last_call' = HpGetResultOutcome(checkpoints, min_checkpoints)
    /\ UNCHANGED <<kind, max_checkpoints, min_checkpoints, checkpoints,
                   checkpoint_indicators>>
    /\ UNCHANGED ui_vars

\* MpAnalyzer.reset
MpReset ==
    /\ kind = "mp"
    /\ checkpoints' = <<>>
    /\ last_call' = Call("reset", NoArg, "ok", NoResult)
    /\ UNCHANGED <<kind, max_checkpoints, min_checkpoints,
                   checkpoint_indicators>>
    /\ UNCHANGED ui_vars

\* add_checkpoint evicting the newest checkpoint instead of the oldest
MpAddCheckpointEffect_EvictsNewest(cps, max, checkpoint) ==
    IF Len(cps) >= max /\ cps = <<>>
    THEN [checkpoints |-> cps, outcome |-> "IndexError"]
    ELSE [checkpoints |->
              Append(IF Len(cps) >= max
                     THEN SubSeq(cps, 1, Len(cps) - 1) ELSE cps, checkpoint),
          outcome |-> "ok"]

\* MpAnalyzer.add_checkpoint
MpAddCheckpointEffect(cps, max, checkpoint) ==
    IF Len(cps) >= max /\ cps = <<>>
    THEN [checkpoints |-> cps, outcome |-> "IndexError"]
    ELSE [checkpoints |->
              Append(IF Len(cps) >= max THEN Tail(cps) ELSE cps, checkpoint),
          outcome |-> "ok"]

MpAddCheckpoint(checkpoint) ==
    /\ kind = "mp"
    /\ \E e \in {MpAddCheckpointEffect(checkpoints, max_checkpoints,
                                      checkpoint)} :
           /\ checkpoints' = e.checkpoints
           /\ last_call' = Call("add_checkpoint", checkpoint, e.outcome,
                                NoResult)
    /\ UNCHANGED <<kind, max_checkpoints, min_checkpoints,
                   checkpoint_indicators>>
    /\ UNCHANGED ui_vars

MpGetResult ==
    /\ kind = "mp"
    /\ last_call' = MpGetResultOutcome(checkpoints, min_checkpoints)
    /\ UNCHANGED <<kind, max_checkpoints, min_checkpoints, checkpoints,
                   checkpoint_indicators>>
    /\ UNCHANGED ui_vars

Next ==
    \/ ExpReset
    \/ \E checkpoint \in ExpCheckpoints : ExpAddCheckpoint(checkpoint)
    \/ ExpGetResult
    \/ HpReset
    \/ \E checkpoint \in HpCheckpoints : HpAddCheckpoint(checkpoint)
    \/ HpGetResult
    \/ MpReset
    \/ \E checkpoint \in MpCheckpoints : MpAddCheckpoint(checkpoint)
    \/ MpGetResult

Spec == Init /\ [][Next]_vars

(***************************************************************************)
(* The ExpAnalyzer driven with the checkpoints of two scenarios of         *)
(* tests/analyzer/test_exp.py, a level-up from 10 to 11 and a steady gain  *)
(* within level 10, and with two readings of level 10 whose implied totals *)
(* are 5000 and 1020 (2% above) where the others of the level imply 1000.  *)
(***************************************************************************)
ScenarioExpCheckpoints ==
    {ExpCheckpoint(10, 900, 9000, 0),
     ExpCheckpoint(11, 50, 500, SecondsPerMinute),
     ExpCheckpoint(11, 150, 1500, 2 * SecondsPerMinute),
     ExpCheckpoint(10, 100, 1000, 0),
     ExpCheckpoint(10, 200, 2000, SecondsPerMinute),
     ExpCheckpoint(10, 500, 1000, 2 * SecondsPerMinute),
     ExpCheckpoint(10, 510, 5000, SecondsPerMinute)}

InitScenarios ==
    /\ kind = "exp"
    /\ UiConstructed
    /\ max_checkpoints = MinFilterLen
    /\ min_checkpoints = DefaultExpMinCheckpoints
    /\ checkpoints = <<>>
    /\ checkpoint_indicators = <<>>
    /\ last_call = Call("init", NoArg, "ok", NoResult)

NextScenarios ==
    \/ ExpReset
    \/ \E checkpoint \in ScenarioExpCheckpoints : ExpAddCheckpoint(checkpoint)
    \/ ExpGetResult

SpecScenarios == InitScenarios /\ [][NextScenarios]_vars

(***************************************************************************)
(* The HpAnalyzer and the MpAnalyzer driven with the checkpoints of the    *)
(* mixed loss and gain scenario of tests/analyzer/test_hp.py and           *)
(* tests/analyzer/test_mp.py: 200, 100, 150, 130 of 1000, 60 s apart, in   *)
(* any order and number, in a window as long as the scenario.              *)
(***************************************************************************)
ScenarioHpCheckpoints ==
    {HpCheckpoint(200, 1000, 0),
     HpCheckpoint(100, 1000, SecondsPerMinute),
     HpCheckpoint(150, 1000, 2 * SecondsPerMinute),
     HpCheckpoint(130, 1000, 3 * SecondsPerMinute)}

ScenarioMpCheckpoints ==
    {MpCheckpoint(200, 1000, 0),
     MpCheckpoint(100, 1000, SecondsPerMinute),
     MpCheckpoint(150, 1000, 2 * SecondsPerMinute),
     MpCheckpoint(130, 1000, 3 * SecondsPerMinute)}

InitVitals ==
    /\ kind \in {"hp", "mp"}
    /\ UiConstructed
    /\ max_checkpoints = Cardinality(ScenarioHpCheckpoints)
    /\ min_checkpoints \in 1..MaxMinCheckpoints
    /\ checkpoints = <<>>
    /\ checkpoint_indicators = <<>>
    /\ last_call = Call("init", NoArg, "ok", NoResult)

NextVitals ==
    \/ HpReset
    \/ \E checkpoint \in ScenarioHpCheckpoints : HpAddCheckpoint(checkpoint)
    \/ HpGetResult
    \/ MpReset
    \/ \E checkpoint \in ScenarioMpCheckpoints : MpAddCheckpoint(checkpoint)
    \/ MpGetResult

SpecVitals == InitVitals /\ [][NextVitals]_vars

(***************************************************************************)
(* The ExpAnalyzer driven with the checkpoints of the projection tests of  *)
(* tests/analyzer/test_exp.py (all of level 10), in a short window: the    *)
(* outlier filter does not run.                                            *)
(***************************************************************************)
ProjectionMaxCheckpoints == 3

ProjectionExpCheckpoints ==
    {ExpCheckpoint(10, 100, 1000, 0),
     ExpCheckpoint(10, 200, 2000, SecondsPerMinute),
     ExpCheckpoint(10, 100, 1000, SecondsPerMinute),
     ExpCheckpoint(10, 200, 0, SecondsPerMinute),
     ExpCheckpoint(10, 1000, 10000, 2 * SecondsPerMinute),
     ExpCheckpoint(10, 500, 5000, 2 * SecondsPerMinute)}

InitProjection ==
    /\ kind = "exp"
    /\ UiConstructed
    /\ max_checkpoints = ProjectionMaxCheckpoints
    /\ min_checkpoints = DefaultExpMinCheckpoints
    /\ checkpoints = <<>>
    /\ checkpoint_indicators = <<>>
    /\ last_call = Call("init", NoArg, "ok", NoResult)

NextProjection ==
    \/ ExpReset
    \/ \E checkpoint \in ProjectionExpCheckpoints : ExpAddCheckpoint(checkpoint)
    \/ ExpGetResult

SpecProjection == InitProjection /\ [][NextProjection]_vars

(***************************************************************************)
(* HpCheckpoint.from_app_captures and MpCheckpoint.from_app_captures.  A   *)
(* text is a sequence of characters.  A capture is a window image: what    *)
(* matters of it is the list of texts the OCR engine reads in its HP area  *)
(* and in its MP area (its hp and mp fields).  datetime.now() inside one   *)
(* call is one value, now.                                                 *)
(***************************************************************************)
MaxCaptures == 3

Digits == <<"0", "1", "2", "3", "4", "5", "6", "7", "8", "9">>

IsDigit(c) == \E d \in 1..Len(Digits) : Digits[d] = c

\* int() of one decimal digit
DigitValue(c) == (CHOOSE d \in 1..Len(Digits) : Digits[d] = c) - 1

\* text.replace(" ", "")
RemoveSpaces(text) == SelectSeq(text, LAMBDA c : c # " ")

\* \d+ matched greedily from index i: the index after the last digit
RECURSIVE DigitRunEnd(_, _)
DigitRunEnd(text, i) ==
    IF i <= Len(text) /\ IsDigit(text[i])
    THEN DigitRunEnd(text, i + 1)
    ELSE i

\* int() of the digits text[from..to]
RECURSIVE IntOf(_, _, _)
IntOf(text, from, to) ==
    IF to < from THEN 0
    ELSE 10 * IntOf(text, from, to - 1) + DigitValue(text[to])

\* .*$ from index i: no line break, except one that ends the text
RestMatches(text, i) ==
    \A j \in i..Len(text) : text[j] = "\n" => j = Len(text)

NoMatch == [matched |-> FALSE, current |-> 0, total |-> 0]

\* HP_REGEX.match(text) and the int() of its two groups
RegexMatch(text) ==
    IF Len(text) = 0 \/ text[1] # "[" THEN NoMatch
    ELSE LET slash == DigitRunEnd(text, 2)
         IN  IF slash = 2 \/ slash > Len(text) \/ text[slash] # "/"
             THEN NoMatch
             ELSE LET close == DigitRunEnd(text, slash + 1)
                  IN  IF \/ close = slash + 1
                         \/ close > Len(text)
                         \/ text[close] # "]"
                         \/ ~RestMatches(text, close + 1)
                      THEN NoMatch
                      ELSE [matched |-> TRUE,
                            current |-> IntOf(text, 2, slash - 1),
                            total |-> IntOf(text, slash + 1, close - 1)]

\* HpCheckpoint.parse_hp_results: the first text that matches
RECURSIVE ParseHpResults(_)
ParseHpResults(hp_results) ==
    IF hp_results = <<>> THEN NoMatch
    ELSE LET match == RegexMatch(RemoveSpaces(Head(hp_results)))
         IN  IF match.matched THEN match
             ELSE ParseHpResults(Tail(hp_results))

\* MpCheckpoint.parse_mp_results
RECURSIVE ParseMpResults(_)
ParseMpResults(mp_results) ==
    IF mp_results = <<>> THEN NoMatch
    ELSE LET match == RegexMatch(RemoveSpaces(Head(mp_results)))
         IN  IF match.matched THEN match
             ELSE ParseMpResults(Tail(mp_results))

\* the None of a list of optional checkpoints
NoCheckpoint == [none |-> TRUE]

\* a timestamp argument: None, or a datetime
NoTs == [given |-> FALSE, ts |-> 0]
Ts(ts) == [given |-> TRUE, ts |-> ts]

\* HpCheckpoint.from_ocr_results
HpFromOcrResults(hp_results, ts, now) ==
    LET parsed_hp == ParseHpResults(hp_results)
    IN  IF ~parsed_hp.matched THEN NoCheckpoint
        ELSE HpCheckpoint(parsed_hp.current, parsed_hp.total,
                          IF ts.given THEN ts.ts ELSE now)

\* MpCheckpoint.from_ocr_results
MpFromOcrResults(mp_results, ts, now) ==
    LET parsed_mp == ParseMpResults(mp_results)
    IN  IF ~parsed_mp.matched THEN NoCheckpoint
        ELSE MpCheckpoint(parsed_mp.current, parsed_mp.total,
                          IF ts.given THEN ts.ts ELSE now)

\* cropper.get_hp_crop and cropper.get_mp_crop: the area of the capture
GetHpCrop(capture) == [texts |-> capture.hp]
GetMpCrop(capture) == [texts |-> capture.mp]

\* ocr.recognize_text_from_images_batch: one list of texts per image
RecognizeTextFromImagesBatch(images) ==
    [i \in 1..Len(images) |-> images[i].texts]

\* a ts_list argument: None, or a list of datetimes
NoTsList == [given |-> FALSE, list |-> <<>>]
TsList(list) == [given |-> TRUE, list |-> list]

\* what a from_app_captures call did: its outcome, the list returned, the
\* number of crops made and of calls of the OCR engine
CapturesResult(outcome, list, crops, ocr_calls) ==
    [outcome |-> outcome, checkpoints |-> list, crops |-> crops,
     ocr_calls |-> ocr_calls]

\* from_app_captures leaving out the entries that do not parse
HpFromAppCaptures_SkipUnparsed(captures, ts_list, now) ==
    IF ts_list.given /\ Len(ts_list.list) # Len(captures)
    THEN CapturesResult("ValueError", <<>>, 0, 0)
    ELSE IF Len(captures) = 0
    THEN CapturesResult("ok", <<>>, 0, 0)
    ELSE LET cropped_images ==
                 [i \in 1..Len(captures) |-> GetHpCrop(captures[i])]
             batch_ocr_results == RecognizeTextFromImagesBatch(cropped_images)
             all == [i \in 1..Len(batch_ocr_results) |->
                        HpFromOcrResults(
                            batch_ocr_results[i],
                            IF ts_list.given /\ ts_list.list # <<>>
                            THEN Ts(ts_list.list[i]) ELSE NoTs,
                            now)]
         IN  CapturesResult("ok",
                            SelectSeq(all, LAMBDA c : c # NoCheckpoint),
                            Len(captures), 1)

\* HpCheckpoint.from_app_captures
HpFromAppCaptures(captures, ts_list, now) ==
    IF ts_list.given /\ Len(ts_list.list) # Len(captures)
    THEN CapturesResult("ValueError", <<>>, 0, 0)
    ELSE IF Len(captures) = 0
    THEN CapturesResult("ok", <<>>, 0, 0)
    ELSE LET cropped_images ==
                 [i \in 1..Len(captures) |-> GetHpCrop(captures[i])]
             batch_ocr_results == RecognizeTextFromImagesBatch(cropped_images)
         IN  CapturesResult(
                 "ok",
                 [i \in 1..Len(batch_ocr_results) |->
                     HpFromOcrResults(
                         batch_ocr_results[i],
                         IF ts_list.given /\ ts_list.list # <<>>
                         THEN Ts(ts_list.list[i]) ELSE NoTs,
                         now)],
                 Len(captures), 1)

\* MpCheckpoint.from_app_captures: no early return on an empty list
MpFromAppCaptures(captures, ts_list, now) ==
    IF ts_list.given /\ Len(ts_list.list) # Len(captures)
    THEN CapturesResult("ValueError", <<>>, 0, 0)
    ELSE LET cropped_images ==
                 [i \in 1..Len(captures) |-> GetMpCrop(captures[i])]
             batch_ocr_results == RecognizeTextFromImagesBatch(cropped_images)
         IN  CapturesResult(
                 "ok",
                 [i \in 1..Len(batch_ocr_results) |->
                     MpFromOcrResults(
                         batch_ocr_results[i],
                         IF ts_list.given /\ ts_list.list # <<>>
                         THEN Ts(ts_list.list[i]) ELSE NoTs,
                         now)],
                 Len(captures), 1)

\* the texts read on the screen: "[10/20]", "[ 7 / 40 ] x", "HP", "[/20]",
\* "[3/40", "[5/20]" and "[1/2]" followed by a second line
TextFull == <<"[", "1", "0", "/", "2", "0", "]">>
TextSpaced == <<"[", " ", "7", " ", "/", " ", "4", "0", " ", "]", " ", "x">>
TextLabel == <<"H", "P">>
TextNoCurrent == <<"[", "/", "2", "0", "]">>
TextUnclosed == <<"[", "3", "/", "4", "0">>
TextSecond == <<"[", "5", "/", "2", "0", "]">>
TextTwoLines == <<"[", "1", "/", "2", "]", "\n", "x">>

\* the captures offered: what the HP area and the MP area read
Captures ==
    {[hp |-> <<TextFull>>, mp |-> <<TextSpaced>>],
     [hp |-> <<TextLabel>>, mp |-> <<TextFull>>],
     [hp |-> <<TextLabel, TextSecond>>, mp |-> <<>>],
     [hp |-> <<TextNoCurrent>>, mp |-> <<TextUnclosed>>],
     [hp |-> <<TextSpaced>>, mp |-> <<TextTwoLines>>]}

RECURSIVE ListsOf(_, _)
ListsOf(S, n) ==
    IF n = 0 THEN {<<>>}
    ELSE ListsOf(S, n - 1)
         \cup {Append(l, x) : l \in {m \in ListsOf(S, n - 1) : Len(m) = n - 1},
                              x \in S}

CaptureLists == ListsOf(Captures, MaxCaptures)

TsLists ==
    {NoTsList} \cup {TsList(l) : l \in ListsOf({0, SecondsPerMinute},
                                               MaxCaptures)}

\* the arguments of a from_app_captures call about to be made
InitCaptures ==
    /\ kind \in {"hp", "mp"}
    /\ UiConstructed
    /\ max_checkpoints = 1
    /\ min_checkpoints = 1
    /\ checkpoints = <<>>
    /\ checkpoint_indicators = <<>>
    /\ \E captures \in CaptureLists, ts_list \in TsLists :
           last_call = Call("call", [captures |-> captures,
                                     ts_list |-> ts_list,
                                     now |-> 2 * SecondsPerMinute],
                            "pending", NoResult)

\* the static method HpCheckpoint.from_app_captures applied to the arguments
HpFromAppCapturesCall ==
    /\ kind = "hp"
    /\ last_call.op = "call"
    /\ \E r \in {HpFromAppCaptures(last_call.arg.captures,
                                    last_call.arg.ts_list,
                                    last_call.arg.now)} :
           last_call' = Call("from_app_captures", last_call.arg, r.outcome, r)
    /\ UNCHANGED <<kind, max_checkpoints, min_checkpoints, checkpoints,
                   checkpoint_indicators>>
    /\ UNCHANGED ui_vars

\* the static method MpCheckpoint.from_app_captures applied to the arguments
MpFromAppCapturesCall ==
    /\ kind = "mp"
    /\ last_call.op = "call"
    /\ \E r \in {MpFromAppCaptures(last_call.arg.captures,
                                    last_call.arg.ts_list,
                                    last_call.arg.now)} :
           last_call' = Call("from_app_captures", last_call.arg, r.outcome, r)
    /\ UNCHANGED <<kind, max_checkpoints, min_checkpoints, checkpoints,
                   checkpoint_indicators>>
    /\ UNCHANGED ui_vars

NextCaptures ==
    \/ HpFromAppCapturesCall
    \/ MpFromAppCapturesCall

SpecCaptures == InitCaptures /\ [][NextCaptures]_vars

(***************************************************************************)
(* An ExpAnalyzer whose window outgrows the filter's minimum length, fed   *)
(* with checkpoints of one level: two that imply a total of 1000, and one  *)
(* that implies a total of 5000.                                           *)
(***************************************************************************)
FlipMaxCheckpoints == 8

CheckpointThousand == ExpCheckpoint(10, 100, 1000, 0)
CheckpointFiveThousand == ExpCheckpoint(10, 500, 1000, 0)

FlipExpCheckpoints ==
    {CheckpointThousand, CheckpointFiveThousand,
     ExpCheckpoint(10, 200, 2000, SecondsPerMinute)}

InitFlips ==
    /\ kind = "exp"
    /\ UiConstructed
    /\ max_checkpoints = FlipMaxCheckpoints
    /\ min_checkpoints = DefaultExpMinCheckpoints
    /\ checkpoints = <<>>
    /\ checkpoint_indicators = <<>>
    /\ last_call = Call("init", NoArg, "ok", NoResult)

NextFlips ==
    \/ ExpReset
    \/ \E checkpoint \in FlipExpCheckpoints : ExpAddCheckpoint(checkpoint)
    \/ ExpGetResult

SpecFlips == InitFlips /\ [][NextFlips]_vars

(***************************************************************************)
(* The analyzers with a caller that assigns config.max_checkpoints between *)
(* calls, as the tests do after construction.                              *)
(***************************************************************************)
\* analyzer.config.max_checkpoints = max
SetMaxCheckpoints(max) ==
    /\ max # max_checkpoints
    /\ max_checkpoints' = max
    /\ last_call' = Call("set_max_checkpoints", max, "ok", NoResult)
    /\ UNCHANGED <<kind, min_checkpoints, checkpoints, checkpoint_indicators>>
    /\ UNCHANGED ui_vars

InitReconfigure ==
    /\ kind \in {"exp", "hp", "mp"}
    /\ UiConstructed
    /\ max_checkpoints \in Capacities
    /\ min_checkpoints = DefaultExpMinCheckpoints
    /\ checkpoints = <<>>
    /\ checkpoint_indicators = <<>>
    /\ last_call = Call("init", NoArg, "ok", NoResult)

NextReconfigure ==
    \/ \E max \in Capacities : SetMaxCheckpoints(max)
    \/ ExpReset
    \/ \E checkpoint \in ExpCheckpoints : ExpAddCheckpoint(checkpoint)
    \/ HpReset
    \/ \E checkpoint \in HpCheckpoints : HpAddCheckpoint(checkpoint)
    \/ MpReset
    \/ \E checkpoint \in MpCheckpoints : MpAddCheckpoint(checkpoint)

SpecReconfigure == InitReconfigure /\ [][NextReconfigure]_vars

(***************************************************************************)
(* ExpCheckpoint.from_app_capture (src/explab/maplestory/exp.py).  A       *)
(* capture also has a level area and an exp area (its level and exp        *)
(* fields).  The ratio text "dd.dd" divided by 100 is a whole number of    *)
(* 1/RatioScale.                                                           *)
(***************************************************************************)
\* what $ lets a pattern ignore: one line break at the end of the text
WithoutFinalNewline(text) ==
    IF text # <<>> /\ text[Len(text)] = "\n"
    THEN SubSeq(text, 1, Len(text) - 1) ELSE text

\* LEVEL_REGEX.match(text)
LevelRegexMatch(text) ==
    LET body == WithoutFinalNewline(text)
    IN  /\ Len(body) \in 1..3
        /\ \A i \in 1..Len(body) : IsDigit(body[i])

\* ExpCheckpoint.parse_level_results
RECURSIVE ParseLevelResults(_)
ParseLevelResults(level_results) ==
    IF level_results = <<>> THEN [matched |-> FALSE, level |-> 0]
    ELSE LET text == RemoveSpaces(Head(level_results))
         IN  IF LevelRegexMatch(text)
             THEN [matched |-> TRUE,
                   level |-> IntOf(WithoutFinalNewline(text), 1,
                                   Len(WithoutFinalNewline(text)))]
             ELSE ParseLevelResults(Tail(level_results))

NoExpMatch == [matched |-> FALSE, value |-> 0, ratio |-> 0]

\* EXP_REGEX.match(text), int() of the value and float() / 100 of the ratio
ExpRegexMatch(text) ==
    LET body == WithoutFinalNewline(text)
        bracket == DigitRunEnd(body, 1)
    IN  IF bracket = 1 \/ bracket > Len(body) \/ body[bracket] # "["
        THEN NoExpMatch
        ELSE LET dot == DigitRunEnd(body, bracket + 1)
             IN  IF \/ dot - (bracket + 1) \notin {1, 2}
                    \/ dot > Len(body)
                    \/ body[dot] # "."
                 THEN NoExpMatch
                 ELSE LET percent == DigitRunEnd(body, dot + 1)
                      IN  IF \/ percent - (dot + 1) \notin {1, 2}
                             \/ percent > Len(body)
                             \/ body[percent] # "%"
                             \/ ~ \/ percent = Len(body)
                                  \/ /\ percent + 1 = Len(body)
                                     /\ body[percent + 1] = "]"
                          THEN NoExpMatch
                          ELSE [matched |-> TRUE,
                                value |-> IntOf(body, 1, bracket - 1),
                                ratio |->
                                    IntOf(body, bracket + 1, dot - 1) * 100
                                    + IntOf(body, dot + 1, percent - 1)
                                      * (IF percent - (dot + 1) = 1
                                         THEN 10 ELSE 1)]

\* ExpCheckpoint.parse_exp_results
RECURSIVE ParseExpResults(_)
ParseExpResults(exp_results) ==
    IF exp_results = <<>> THEN NoExpMatch
    ELSE LET match == ExpRegexMatch(RemoveSpaces(Head(exp_results)))
         IN  IF match.matched THEN match
             ELSE ParseExpResults(Tail(exp_results))

\* ExpCheckpoint.from_ocr_results
ExpFromOcrResults(level_results, exp_results, ts, now) ==
    LET level == ParseLevelResults(level_results)
        exp == ParseExpResults(exp_results)
    IN  IF ~level.matched THEN NoCheckpoint
        ELSE IF ~exp.matched THEN NoCheckpoint
        ELSE ExpCheckpoint(level.level, exp.value, exp.ratio,
                           IF ts.given THEN ts.ts ELSE now)

\* cropper.get_level_crop and cropper.get_exp_crop
GetLevelCrop(capture) == [texts |-> capture.level]
GetExpCrop(capture) == [texts |-> capture.exp]

\* ocr.recognize_text_from_image
RecognizeTextFromImage(image) == image.texts

\* ExpCheckpoint.from_app_capture
ExpFromAppCapture(capture, ts, now) ==
    ExpFromOcrResults(RecognizeTextFromImage(GetLevelCrop(capture)),
                      RecognizeTextFromImage(GetExpCrop(capture)), ts, now)

(***************************************************************************)
(* The three pipelines of the UI (src/explab/ui/main.py).  The pipeline of *)
(* the analyzer at hand is modelled: its Start/Stop button                 *)
(* (toggle_*_analyzer) and the callback of its timer (update_*_analysis).  *)
(* The callbacks have no await: each runs to its end before anything else. *)
(* A callback runs while the timer is active, and once more after a stop   *)
(* when an invocation was already due.  Every callback that passes the     *)
(* test of the running flag is one interval later than the one before.     *)
(***************************************************************************)
MaxTicks == 6

ExpInterval == 5
HpInterval == 1
MpInterval == 1
MpBatchSize == 5

\* config.interval of the analyzer at hand
Interval ==
    IF kind = "exp" THEN ExpInterval
    ELSE IF kind = "hp" THEN HpInterval ELSE MpInterval

\* the attribute batch_size of HpAnalyzerConfig and of MpAnalyzerConfig:
\* HpAnalyzerConfig declares none
HpConfigBatchSize == [defined |-> FALSE, value |-> 0]
MpConfigBatchSize == [defined |-> TRUE, value |-> MpBatchSize]

\* the texts read on the screen: "10", "LV", "0[50.00%]", "100[10.0%]",
\* "150 [15.00%", "[5/20]"
TextLevel == <<"1", "0">>
TextLevelLabel == <<"L", "V">>
TextExpZero == <<"0", "[", "5", "0", ".", "0", "0", "%", "]">>
TextExpHundred == <<"1", "0", "0", "[", "1", "0", ".", "0", "%", "]">>
TextExpOpen ==
    <<"1", "5", "0", " ", "[", "1", "5", ".", "0", "0", "%">>
TextLow == <<"[", "5", "/", "2", "0", "]">>

\* capture_app_window returning None
NoCapture == [none |-> TRUE]

\* the windows capture_app_window returns
Screens ==
    {[level |-> <<TextLevel>>, exp |-> <<TextExpZero>>,
      hp |-> <<TextFull>>, mp |-> <<TextFull>>],
     [level |-> <<TextLevel>>, exp |-> <<TextExpHundred>>,
      hp |-> <<TextLow>>, mp |-> <<TextLow>>],
     [level |-> <<TextLevelLabel, TextLevel>>, exp |-> <<TextExpOpen>>,
      hp |-> <<TextLabel>>, mp |-> <<TextUnclosed>>],
     [level |-> <<TextLevelLabel>>, exp |-> <<TextExpHundred>>,
      hp |-> <<TextLabel>>, mp |-> <<TextLabel>>]}

\* a callback invoked while the running flag is false: it returns at once
ReturnsAtOnce ==
    /\ ~is_running
    /\ tick.ran
    /\ tick' = Tick(TRUE, FALSE, FALSE, FALSE, <<>>, "none")
    /\ UNCHANGED <<kind, max_checkpoints, min_checkpoints, checkpoints,
                   checkpoint_indicators, last_call, is_running, timer,
                   capture_buffer, ts_buffer, clock>>

\* start_exp_analyzer without the reset of the analyzer
StartExpAnalyzer_NoReset ==
    /\ is_running' = TRUE
    /\ timer' = "active"
    /\ UNCHANGED <<kind, max_checkpoints, min_checkpoints, checkpoints,
                   checkpoint_indicators, last_call, capture_buffer,
                   ts_buffer, clock, tick>>

\* UI.start_exp_analyzer
StartExpAnalyzer ==
    /\ is_running' = TRUE
    /\ checkpoints' = <<>>
    /\ checkpoint_indicators' = <<>>
    /\ last_call' = Call("reset", NoArg, "ok", NoResult)
    /\ timer' = "active"
    /\ UNCHANGED <<kind, max_checkpoints, min_checkpoints, capture_buffer,
                   ts_buffer, clock, tick>>

\* UI.stop_exp_analyzer
StopExpAnalyzer ==
    /\ is_running' = FALSE
    /\ timer' = "None"
    /\ UNCHANGED <<kind, max_checkpoints, min_checkpoints, checkpoints,
                   checkpoint_indicators, last_call, capture_buffer,
                   ts_buffer, clock, tick>>

\* UI.toggle_exp_analyzer
ToggleExpAnalyzer ==
    /\ kind = "exp"
    /\ IF is_running THEN StopExpAnalyzer ELSE StartExpAnalyzer

\* UI.update_exp_analysis past the test of the running flag
ExpAnalysis(capture) ==
    /\ is_running
    /\ clock < MaxTicks * Interval
    /\ clock' = clock + Interval
    /\ IF capture = NoCapture
       THEN /\ tick' = Tick(TRUE, TRUE, FALSE, FALSE, <<>>, "none")
            /\ UNCHANGED <<checkpoints, checkpoint_indicators, last_call>>
       ELSE \E checkpoint \in {ExpFromAppCapture(capture, NoTs, clock)} :
            IF checkpoint = NoCheckpoint
            THEN /\ tick' = Tick(TRUE, TRUE, TRUE, FALSE, <<>>, "none")
                 /\ UNCHANGED <<checkpoints, checkpoint_indicators,
                                last_call>>
            ELSE \E e \in {ExpAddCheckpointEffect(checkpoints,
                                                  checkpoint_indicators,
                                                  max_checkpoints,
                                                  checkpoint)} :
                 /\ checkpoints' = e.checkpoints
                 /\ checkpoint_indicators' = e.indicators
                 /\ IF e.outcome # "ok"
                    THEN /\ last_call' = Call("add_checkpoint", checkpoint,
                                              e.outcome, NoResult)
                         /\ tick' = Tick(TRUE, TRUE, TRUE, TRUE,
                                         <<"add_checkpoint">>, e.outcome)
                    ELSE \E result \in {ExpGetResultOutcome(
                                            e.checkpoints, e.indicators,
                                            min_checkpoints)} :
                         /\ last_call' = result
                         /\ tick' = Tick(TRUE, TRUE, TRUE, TRUE,
                                         <<"add_checkpoint", "get_result">>,
                                         IF result.outcome
                                            \in {"None", "result"}
                                         THEN "none" ELSE result.outcome)
    /\ UNCHANGED <<kind, max_checkpoints, min_checkpoints, is_running, timer,
                   capture_buffer, ts_buffer>>

\* UI.update_exp_analysis, the callback of exp_timer
UpdateExpAnalysis(capture) ==
    /\ kind = "exp"
    /\ \/ ReturnsAtOnce
       \/ ExpAnalysis(capture)

\* UI.start_hp_analyzer
StartHpAnalyzer ==
    /\ is_running' = TRUE
    /\ checkpoints' = <<>>
    /\ last_call' = Call("reset", NoArg, "ok", NoResult)
    /\ capture_buffer' = <<>>
    /\ ts_buffer' = <<>>
    /\ timer' = "active"
    /\ UNCHANGED <<kind, max_checkpoints, min_checkpoints,
                   checkpoint_indicators, clock, tick>>

\* UI.stop_hp_analyzer
StopHpAnalyzer ==
    /\ is_running' = FALSE
    /\ timer' = "None"
    /\ capture_buffer' = <<>>
    /\ ts_buffer' = <<>>
    /\ UNCHANGED <<kind, max_checkpoints, min_checkpoints, checkpoints,
                   checkpoint_indicators, last_call, clock, tick>>

\* UI.toggle_hp_analyzer
ToggleHpAnalyzer ==
    /\ kind = "hp"
    /\ IF is_running THEN StopHpAnalyzer ELSE StartHpAnalyzer

\* the loop of update_hp_analysis over the parsed batch: add_checkpoint of
\* every entry that is not None, until one raises
RECURSIVE HpAddBatch(_, _, _, _)
HpAddBatch(cps, max, batch, calls) ==
    IF batch = <<>>
    THEN [checkpoints |-> cps, outcome |-> "ok", calls |-> calls,
          last |-> NoCheckpoint]
    ELSE IF Head(batch) = NoCheckpoint
    THEN HpAddBatch(cps, max, Tail(batch), calls)
    ELSE LET e == HpAddCheckpointEffect(cps, max, Head(batch))
         IN  IF e.outcome # "ok"
             THEN [checkpoints |-> e.checkpoints, outcome |-> e.outcome,
                   calls |-> Append(calls, "add_checkpoint"),
                   last |-> Head(batch)]
             ELSE HpAddBatch(e.checkpoints, max, Tail(batch),
                             Append(calls, "add_checkpoint"))

\* UI.update_hp_analysis past the test of the running flag
HpAnalysis(capture) ==
    /\ is_running
    /\ clock < MaxTicks * Interval
    /\ clock' = clock + Interval
    /\ IF capture = NoCapture
       THEN /\ tick' = Tick(TRUE, TRUE, FALSE, FALSE, <<>>, "none")
            /\ UNCHANGED <<checkpoints, last_call, capture_buffer,
                           ts_buffer>>
       ELSE \E captures \in {Append(capture_buffer, capture)},
               ts_list \in {Append(ts_buffer, clock)} :
            IF ~HpConfigBatchSize.defined
            THEN /\ capture_buffer' = captures
                 /\ ts_buffer' = ts_list
                 /\ tick' = Tick(TRUE, TRUE, TRUE, FALSE, <<>>,
                                 "AttributeError")
                 /\ UNCHANGED <<checkpoints, last_call>>
            ELSE IF Len(captures) < HpConfigBatchSize.value
            THEN /\ capture_buffer' = captures
                 /\ ts_buffer' = ts_list
                 /\ tick' = Tick(TRUE, TRUE, TRUE, FALSE, <<>>, "none")
                 /\ UNCHANGED <<checkpoints, last_call>>
            ELSE \E r \in {HpFromAppCaptures(captures, TsList(ts_list),
                                             clock)} :
                 IF r.outcome # "ok"
                 THEN /\ capture_buffer' = captures
                      /\ ts_buffer' = ts_list
                      /\ tick' = Tick(TRUE, TRUE, TRUE, FALSE, <<>>,
                                      r.outcome)
                      /\ UNCHANGED <<checkpoints, last_call>>
                 ELSE \E b \in {HpAddBatch(checkpoints, max_checkpoints,
                                           r.checkpoints, <<>>)} :
                      /\ capture_buffer' = <<>>
                      /\ ts_buffer' = <<>>
                      /\ checkpoints' = b.checkpoints
                      /\ IF b.outcome # "ok"
                         THEN /\ last_call' = Call("add_checkpoint", b.last,
                                                   b.outcome, NoResult)
                              /\ tick' = Tick(TRUE, TRUE, TRUE, TRUE,
                                              b.calls, b.outcome)
                         ELSE IF b.calls = <<>> /\ r.checkpoints = <<>>
                         THEN /\ tick' = Tick(TRUE, TRUE, TRUE, TRUE,
                                              b.calls, "none")
                              /\ UNCHANGED last_call
                         ELSE \E result \in {HpGetResultOutcome(
                                                 b.checkpoints,
                                                 min_checkpoints)} :
                              /\ last_call' = result
                              /\ tick' = Tick(TRUE, TRUE, TRUE, TRUE,
                                              Append(b.calls, "get_result"),
                                              IF result.outcome
                                                 \in {"None", "result"}
                                              THEN "none"
                                              ELSE result.outcome)
    /\ UNCHANGED <<kind, max_checkpoints, min_checkpoints,
                   checkpoint_indicators, is_running, timer>>

\* UI.update_hp_analysis, the callback of hp_timer
UpdateHpAnalysis(capture) ==
    /\ kind = "hp"
    /\ \/ ReturnsAtOnce
       \/ HpAnalysis(capture)

\* UI.start_mp_analyzer
StartMpAnalyzer ==
    /\ is_running' = TRUE
    /\ checkpoints' = <<>>
    /\ last_call' = Call("reset", NoArg, "ok", NoResult)
    /\ capture_buffer' = <<>>
    /\ ts_buffer' = <<>>
    /\ timer' = "active"
    /\ UNCHANGED <<kind, max_checkpoints, min_checkpoints,
                   checkpoint_indicators, clock, tick>>

\* UI.stop_mp_analyzer
StopMpAnalyzer ==
    /\ is_running' = FALSE
    /\ timer' = "None"
    /\ capture_buffer' = <<>>
    /\ ts_buffer' = <<>>
    /\ UNCHANGED <<kind, max_checkpoints, min_checkpoints, checkpoints,
                   checkpoint_indicators, last_call, clock, tick>>

\* UI.toggle_mp_analyzer
ToggleMpAnalyzer ==
    /\ kind = "mp"
    /\ IF is_running THEN StopMpAnalyzer ELSE StartMpAnalyzer

\* the loop of update_mp_analysis over the parsed batch
RECURSIVE MpAddBatch(_, _, _, _)
MpAddBatch(cps, max, batch, calls) ==
    IF batch = <<>>
    THEN [checkpoints |-> cps, outcome |-> "ok", calls |-> calls,
          last |-> NoCheckpoint]
    ELSE IF Head(batch) = NoCheckpoint
    THEN MpAddBatch(cps, max, Tail(batch), calls)
    ELSE LET e == MpAddCheckpointEffect(cps, max, Head(batch))
         IN  IF e.outcome # "ok"
             THEN [checkpoints |-> e.checkpoints, outcome |-> e.outcome,
                   calls |-> Append(calls, "add_checkpoint"),
                   last |-> Head(batch)]
             ELSE MpAddBatch(e.checkpoints, max, Tail(batch),
                             Append(calls, "add_checkpoint"))

\* UI.update_mp_analysis past the test of the running flag
MpAnalysis(capture) ==
    /\ is_running
    /\ clock < MaxTicks * Interval
    /\ clock' = clock + Interval
    /\ IF capture = NoCapture
       THEN /\ tick' = Tick(TRUE, TRUE, FALSE, FALSE, <<>>, "none")
            /\ UNCHANGED <<checkpoints, last_call, capture_buffer,
                           ts_buffer>>
       ELSE \E captures \in {Append(capture_buffer, capture)},
               ts_list \in {Append(ts_buffer, clock)} :
            IF ~MpConfigBatchSize.defined
            THEN /\ capture_buffer' = captures
                 /\ ts_buffer' = ts_list
                 /\ tick' = Tick(TRUE, TRUE, TRUE, FALSE, <<>>,
                                 "AttributeError")
                 /\ UNCHANGED <<checkpoints, last_call>>
            ELSE IF Len(captures) < MpConfigBatchSize.value
            THEN /\ capture_buffer' = captures
                 /\ ts_buffer' = ts_list
                 /\ tick' = Tick(TRUE, TRUE, TRUE, FALSE, <<>>, "none")
                 /\ UNCHANGED <<checkpoints, last_call>>
            ELSE \E r \in {MpFromAppCaptures(captures, TsList(ts_list),
                                             clock)} :
                 IF r.outcome # "ok"
                 THEN /\ capture_buffer' = captures
                      /\ ts_buffer' = ts_list
                      /\ tick' = Tick(TRUE, TRUE, TRUE, FALSE, <<>>,
                                      r.outcome)
                      /\ UNCHANGED <<checkpoints, last_call>>
                 ELSE \E b \in {MpAddBatch(checkpoints, max_checkpoints,
                                           r.checkpoints, <<>>)} :
                      /\ capture_buffer' = <<>>
                      /\ ts_buffer' = <<>>
                      /\ checkpoints' = b.checkpoints
                      /\ IF b.outcome # "ok"
                         THEN /\ last_call' = Call("add_checkpoint", b.last,
                                                   b.outcome, NoResult)
                              /\ tick' = Tick(TRUE, TRUE, TRUE, TRUE,
                                              b.calls, b.outcome)
                         ELSE IF b.calls = <<>> /\ r.checkpoints = <<>>
                         THEN /\ tick' = Tick(TRUE, TRUE, TRUE, TRUE,
                                              b.calls, "none")
                              /\ UNCHANGED last_call
                         ELSE \E result \in {MpGetResultOutcome(
                                                 b.checkpoints,
                                                 min_checkpoints)} :
                              /\ last_call' = result
                              /\ tick' = Tick(TRUE, TRUE, TRUE, TRUE,
                                              Append(b.calls, "get_result"),
                                              IF result.outcome
                                                 \in {"None", "result"}
                                              THEN "none"
                                              ELSE result.outcome)
    /\ UNCHANGED <<kind, max_checkpoints, min_checkpoints,
                   checkpoint_indicators, is_running, timer>>

\* UI.update_mp_analysis, the callback of mp_timer
UpdateMpAnalysis(capture) ==
    /\ kind = "mp"
    /\ \/ ReturnsAtOnce
       \/ MpAnalysis(capture)

\* UI.__init__: the window capacities are the configuration's
InitUi ==
    /\ kind \in {"exp", "hp", "mp"}
    /\ UiConstructed
    /\ max_checkpoints \in Capacities
    /\ min_checkpoints = DefaultExpMinCheckpoints
    /\ checkpoints = <<>>
    /\ checkpoint_indicators = <<>>
    /\ last_call = Call("init", NoArg, "ok", NoResult)

NextUi ==
    \/ ToggleExpAnalyzer
    \/ \E capture \in {NoCapture} \cup Screens : UpdateExpAnalysis(capture)
    \/ ToggleHpAnalyzer
    \/ \E capture \in {NoCapture} \cup Screens : UpdateHpAnalysis(capture)
    \/ ToggleMpAnalyzer
    \/ \E capture \in {NoCapture} \cup Screens : UpdateMpAnalysis(capture)

SpecUi == InitUi /\ [][NextUi]_vars

(***************************************************************************)
(* Properties.                                                             *)
(***************************************************************************)
IsAdd == last_call.op = "add_checkpoint"
IsGetResult == last_call.op = "get_result"

\* C1: for each analyzer, with max_checkpoints fixed at a value >= 1, the
\* window holds at most max_checkpoints checkpoints after every
\* add_checkpoint (and reset), however the call ended.
C1_WindowBounded == Len(checkpoints) <= max_checkpoints

\* an add_checkpoint on a full experience window whose filter raised, after
\* at least one eviction that followed an earlier failure
C1_Witness ==
    /\ kind = "exp" /\ IsAdd
    /\ last_call.outcome = "ZeroDivisionError"
    /\ Len(checkpoints) = max_checkpoints
    /\ Len(checkpoint_indicators) < MinFilterLen - 1

\* C2: FIFO eviction: every add_checkpoint leaves the window as it was, less
\* its element at index 0 when it was at capacity, with the new checkpoint
\* placed last (so the window is the last min(n, max_checkpoints)
\* checkpoints added since the reset, in arrival order).
C2_FifoEviction ==
    [][last_call'.op = "add_checkpoint" =>
           checkpoints' =
               Append(IF Len(checkpoints) >= max_checkpoints
                      THEN Tail(checkpoints) ELSE checkpoints,
                      last_call'.arg)]_vars

\* C3: for ExpAnalyzer, checkpoint_indicators and checkpoints have the same
\* length in every state observable between calls, also after a call that
\* ended by raising.
C3_IndicatorsAligned ==
    kind = "exp" => Len(checkpoint_indicators) = Len(checkpoints)

\* C4: add_checkpoint returns normally for every well-formed checkpoint in
\* every reachable state, also where the outlier filter runs.
C4_AddCheckpointReturns == IsAdd => last_call.outcome = "ok"

\* C5: ExpAnalyzer.get_result on an empty window raises ValueError, not the
\* no-result None, whatever min_checkpoints is (and raises it only there).
C5_EmptyExpWindowRaises ==
    (kind = "exp" /\ IsGetResult) =>
        /\ checkpoints = <<>> <=> last_call.outcome = "ValueError"
        /\ checkpoints = <<>> => last_call.outcome # "None"

\* get_result on an empty experience window whose length is also below
\* min_checkpoints
C5_Witness ==
    /\ kind = "exp" /\ IsGetResult
    /\ checkpoints = <<>>
    /\ min_checkpoints = MaxMinCheckpoints

\* C6: HpAnalyzer.get_result and MpAnalyzer.get_result on an empty window
\* signal an error, which a caller can tell from the no-result None returned
\* for 1 <= len < min_checkpoints.
C6_EmptyHpMpWindowRaises ==
    (kind \in {"hp", "mp"} /\ IsGetResult /\ checkpoints = <<>>) =>
        last_call.outcome \notin {"None", "result"}

\* C7: for each analyzer, get_result with 1 <= len(checkpoints) <
\* min_checkpoints returns None: not an error, not a result, whatever the
\* checkpoints are.
C7_BelowMinimumIsNone ==
    (IsGetResult /\ 1 <= Len(checkpoints)
                 /\ Len(checkpoints) < min_checkpoints) =>
        last_call.outcome = "None"

\* get_result below min_checkpoints on an experience window whose rate is
\* defined: only the test of min_checkpoints withholds the result
C7_Witness ==
    /\ kind = "exp" /\ IsGetResult
    /\ 1 <= Len(checkpoints) /\ Len(checkpoints) < min_checkpoints
    /\ IsNum(ComputeExpPerMinute(checkpoints, checkpoint_indicators))

\* C8: for each analyzer, get_result on a non-empty window never raises: it
\* returns a result or None.
C8_GetResultNeverRaises ==
    (IsGetResult /\ checkpoints # <<>>) =>
        last_call.outcome \in {"None", "result"}

(***************************************************************************)
(* The experience rate as the specification states it: sums over the set   *)
(* of contributing pairs, named by the index of their second checkpoint.   *)
(***************************************************************************)
RatePairs(cps, ind) ==
    {i \in 2..Len(cps) :
         ind[i] /\ ind[i - 1] /\ cps[i].level = cps[i - 1].level}

RECURSIVE SumExpDiff(_, _)
SumExpDiff(cps, pairs) ==
    IF pairs = {} THEN 0
    ELSE LET i == CHOOSE j \in pairs : TRUE
         IN  (cps[i].exp - cps[i - 1].exp) + SumExpDiff(cps, pairs \ {i})

RECURSIVE SumSeconds(_, _)
SumSeconds(cps, pairs) ==
    IF pairs = {} THEN 0
    ELSE LET i == CHOOSE j \in pairs : TRUE
         IN  (cps[i].ts - cps[i - 1].ts) + SumSeconds(cps, pairs \ {i})

StatedRate(cps, ind) ==
    LET pairs == RatePairs(cps, ind)
    IN  IF SumSeconds(cps, pairs) > 0
        THEN Num(SumExpDiff(cps, pairs) * SecondsPerMinute,
                 SumSeconds(cps, pairs))
        ELSE None

\* C9: whenever _compute_exp_per_minute returns, its value is the sum of the
\* signed differences exp[i] - exp[i-1] over the consecutive pairs that are
\* both flagged valid and of one level, divided by the sum of those pairs'
\* elapsed minutes when that sum is > 0, and None otherwise; get_result
\* returns no-result exactly when it is None and carries it otherwise.
C9_ExpRate ==
    kind = "exp" =>
        \A rate \in {ComputeExpPerMinute(checkpoints, checkpoint_indicators)} :
            rate # IndexError =>
                /\ rate = StatedRate(checkpoints, checkpoint_indicators)
                /\ (IsGetResult /\ checkpoints # <<>>
                                /\ Len(checkpoints) >= min_checkpoints) =>
                       IF rate = None
                       THEN last_call.outcome = "None"
                       ELSE /\ last_call.outcome = "result"
                            /\ last_call.result.exp_per_minute = rate

\* a result whose rate counts a pair with a negative difference
C9_Witness ==
    /\ kind = "exp" /\ IsGetResult /\ last_call.outcome = "result"
    /\ Len(checkpoint_indicators) = Len(checkpoints)
    /\ \E i \in RatePairs(checkpoints, checkpoint_indicators) :
           checkpoints[i].exp < checkpoints[i - 1].exp
    /\ NumPositive(last_call.result.exp_per_minute)

\* the accumulators of _compute_exp_per_minute after the pair (k-1, k)
RateAccumulators(cps, ind, k) ==
    ExpRateLoop(SubSeq(cps, 1, k), SubSeq(ind, 1, k), 2, 0, 0)

\* levels 10, 11, 11 with exp 900, 50, 150 at 0, 60, 120 s
LevelUpScenario ==
    <<ExpCheckpoint(10, 900, 9000, 0),
      ExpCheckpoint(11, 50, 500, SecondsPerMinute),
      ExpCheckpoint(11, 150, 1500, 2 * SecondsPerMinute)>>

\* C10: a consecutive pair whose checkpoints differ in level adds nothing to
\* the numerator or to the denominator of the experience rate; a window
\* whose every consecutive pair crosses a level has an undefined rate; levels
\* 10, 11, 11 with exp 900, 50, 150 at 0, 60, 120 s give 100 exp/min.
C10_LevelChangeAddsNothing ==
    (kind = "exp" /\ Len(checkpoint_indicators) = Len(checkpoints)) =>
        /\ \A k \in 2..Len(checkpoints) :
               checkpoints[k].level # checkpoints[k - 1].level =>
                   RateAccumulators(checkpoints, checkpoint_indicators, k)
                   = RateAccumulators(checkpoints, checkpoint_indicators, k - 1)
        /\ (\A k \in 2..Len(checkpoints) :
                checkpoints[k].level # checkpoints[k - 1].level) =>
               ComputeExpPerMinute(checkpoints, checkpoint_indicators) = None
        /\ checkpoints = LevelUpScenario =>
               ComputeExpPerMinute(checkpoints, checkpoint_indicators)
               = Int2Num(100)

\* the level-up scenario, read by get_result
C10_Witness ==
    /\ kind = "exp" /\ IsGetResult
    /\ checkpoints = LevelUpScenario
    /\ last_call.outcome = "result"
    /\ last_call.result.exp_per_minute = Int2Num(100)

(***************************************************************************)
(* The outlier filter as the specification states it, flag by flag.  The   *)
(* median is taken by rank: the k-th smallest of the implied totals of the *)
(* usable members of a group.                                              *)
(***************************************************************************)
\* the usable members of the level group of checkpoint i
StatedUsable(cps, i) ==
    {j \in 1..Len(cps) : cps[j].level = cps[i].level /\ cps[j].exp_ratio > 0}

StatedTotal(cp) == Num(cp.exp * RatioScale, cp.exp_ratio)

\* the k-th smallest implied total among the members U
StatedKth(cps, U, k) ==
    CHOOSE t \in {StatedTotal(cps[j]) : j \in U} :
        /\ Cardinality({j \in U : NumLess(StatedTotal(cps[j]), t)}) < k
        /\ Cardinality({j \in U : NumLeq(StatedTotal(cps[j]), t)}) >= k

StatedMedian(cps, U) ==
    LET n == Cardinality(U)
    IN  IF n % 2 = 1 THEN StatedKth(cps, U, (n + 1) \div 2)
        ELSE LET lo == StatedKth(cps, U, n \div 2)
                 hi == StatedKth(cps, U, n \div 2 + 1)
             IN  Num(lo.num * hi.den + hi.num * lo.den, 2 * lo.den * hi.den)

\* |t - m| / m > 2/100 for m > 0, without the division
StatedBeyondTolerance(t, m) ==
    LET d == NumAbs(NumSub(t, m))
    IN  d.num * m.den * ToleranceDen > ToleranceNum * m.num * d.den

StatedFlag(cps, i) ==
    IF cps[i].exp_ratio <= 0 THEN TRUE
    ELSE IF Cardinality(StatedUsable(cps, i)) < 2 THEN TRUE
    ELSE ~StatedBeyondTolerance(StatedTotal(cps[i]),
                                StatedMedian(cps, StatedUsable(cps, i)))

StatedFlags(cps) == [i \in 1..Len(cps) |-> StatedFlag(cps, i)]

\* C11: on a window of 5 or more checkpoints the flags the outlier filter
\* assigned are, member by member: True for a member with exp_ratio <= 0 and
\* for a member of a level group with fewer than 2 usable members
\* (exp_ratio > 0); otherwise False iff |exp/exp_ratio - median| / median >
\* 0.02, the median being that of the group's usable implied totals.
C11_OutlierFlags ==
    (kind = "exp" /\ Len(checkpoints) >= MinFilterLen
                  /\ Len(checkpoint_indicators) = Len(checkpoints)) =>
        checkpoint_indicators = StatedFlags(checkpoints)

\* the filter has just run on a full window and flagged an outlier, with a
\* member of exp_ratio 0 and a group of fewer than 2 usable members present
C11_Witness ==
    /\ kind = "exp" /\ IsAdd /\ last_call.outcome = "ok"
    /\ Len(checkpoints) >= MinFilterLen
    /\ \E i \in 1..Len(checkpoint_indicators) : ~checkpoint_indicators[i]
    /\ \E i \in 1..Len(checkpoints) :
           /\ checkpoints[i].exp_ratio = 0
           /\ Cardinality(StatedUsable(checkpoints, i)) < 2

\* C12: whenever the experience window holds fewer than 5 checkpoints after
\* an add_checkpoint (also when max_checkpoints < 5 keeps it there), every
\* validity flag is True, whatever the implied totals are; when the call
\* returned there is one flag for each checkpoint.
C12_ShortWindowAllValid ==
    (kind = "exp" /\ IsAdd /\ Len(checkpoints) < MinFilterLen) =>
        /\ \A i \in 1..Len(checkpoint_indicators) : checkpoint_indicators[i]
        /\ last_call.outcome = "ok" =>
               Len(checkpoint_indicators) = Len(checkpoints)

\* a window kept below 5 by max_checkpoints, full, holding two usable
\* checkpoints of one level whose implied totals differ
C12_Witness ==
    /\ kind = "exp" /\ IsAdd /\ last_call.outcome = "ok"
    /\ max_checkpoints < MinFilterLen
    /\ Len(checkpoints) = max_checkpoints
    /\ \E i, j \in 1..Len(checkpoints) :
           /\ checkpoints[i].level = checkpoints[j].level
           /\ checkpoints[i].exp_ratio > 0 /\ checkpoints[j].exp_ratio > 0
           /\ StatedTotal(checkpoints[i]) # StatedTotal(checkpoints[j])
    /\ Len(checkpoint_indicators) = Len(checkpoints)

\* the members of a one-level window of usable checkpoints whose implied
\* total is more than 2% away from the median of the window's implied totals
StatedOutliers(cps) ==
    {i \in 1..Len(cps) :
         StatedBeyondTolerance(StatedTotal(cps[i]),
                               StatedMedian(cps, 1..Len(cps)))}

\* the rate over the consecutive pairs that do not touch checkpoint o
StatedRateWithout(cps, o) ==
    LET pairs == {i \in 2..Len(cps) : i # o /\ i - 1 # o}
    IN  IF SumSeconds(cps, pairs) > 0
        THEN Num(SumExpDiff(cps, pairs) * SecondsPerMinute,
                 SumSeconds(cps, pairs))
        ELSE None

OneLevelUsable(cps) ==
    \A i \in 1..Len(cps) :
        cps[i].level = cps[1].level /\ cps[i].exp_ratio > 0

\* C13: in a window of 5 or more checkpoints of one level whose implied
\* totals all lie within 2% of their median except one, exactly that
\* checkpoint is flagged invalid, and the rate is the one computed from the
\* consecutive pairs that do not touch it: both pairs adjacent to the outlier
\* are left out, with their elapsed time.
C13_SingleOutlier ==
    (kind = "exp" /\ Len(checkpoints) >= MinFilterLen
                  /\ Len(checkpoint_indicators) = Len(checkpoints)
                  /\ OneLevelUsable(checkpoints)) =>
        \A o \in 1..Len(checkpoints) :
            StatedOutliers(checkpoints) = {o} =>
                /\ checkpoint_indicators =
                       [i \in 1..Len(checkpoints) |-> i # o]
                /\ ComputeExpPerMinute(checkpoints, checkpoint_indicators)
                   = StatedRateWithout(checkpoints, o)
                /\ (IsGetResult /\ last_call.outcome = "result") =>
                       last_call.result.exp_per_minute
                       = StatedRateWithout(checkpoints, o)

\* a result read from a one-level window whose single outlier is in the
\* middle and which holds a reading exactly 2% away from the median
C13_Witness ==
    /\ kind = "exp" /\ IsGetResult /\ last_call.outcome = "result"
    /\ Len(checkpoints) >= MinFilterLen
    /\ Len(checkpoint_indicators) = Len(checkpoints)
    /\ OneLevelUsable(checkpoints)
    /\ \E o \in 2..(Len(checkpoints) - 1) :
           /\ StatedOutliers(checkpoints) = {o}
           /\ checkpoint_indicators = [i \in 1..Len(checkpoints) |-> i # o]
           /\ checkpoints[o + 1].ts # checkpoints[o].ts
    /\ \E i \in 1..Len(checkpoints) :
           /\ StatedTotal(checkpoints[i])
              # StatedMedian(checkpoints, 1..Len(checkpoints))
           /\ checkpoint_indicators[i]

(***************************************************************************)
(* The health and mana rate as the specification states it.                *)
(***************************************************************************)
IsVital == kind \in {"hp", "mp"}

\* the current value of a health or mana checkpoint
Current(cp) == IF kind = "hp" THEN cp.current_hp ELSE cp.current_mp

\* what the analyzer at hand computes as its rate
VitalRate ==
    IF kind = "hp" THEN ComputeHpLostPerMinute(checkpoints)
    ELSE ComputeMpLostPerMinute(checkpoints)

\* the rate carried by a result of the analyzer at hand
VitalResultRate(result) ==
    IF kind = "hp" THEN result.hp_lost_per_minute
    ELSE result.mp_lost_per_minute

\* the sum over the consecutive pairs up to index n of max(0, loss)
RECURSIVE StatedLoss(_, _)
StatedLoss(cps, n) ==
    IF n < 2 THEN 0
    ELSE StatedLoss(cps, n - 1)
         + (IF Current(cps[n - 1]) - Current(cps[n]) > 0
            THEN Current(cps[n - 1]) - Current(cps[n]) ELSE 0)

\* last.ts - first.ts, the sum of the elapsed seconds of all pairs
StatedElapsed(cps) == cps[Len(cps)].ts - cps[1].ts

\* C14: for a health or mana window of at least 2 checkpoints with positive
\* total elapsed time the rate is the sum over all consecutive pairs of
\* max(0, current[i-1] - current[i]) divided by (last.ts - first.ts) / 60:
\* gains are ignored, idle pairs add their time; 200, 100, 150, 130 spaced
\* 60 s apart give 40 per minute.
C14_VitalRate ==
    (IsVital /\ Len(checkpoints) >= 2 /\ StatedElapsed(checkpoints) > 0) =>
        /\ VitalRate = Num(StatedLoss(checkpoints, Len(checkpoints))
                               * SecondsPerMinute,
                           StatedElapsed(checkpoints))
        /\ (IsGetResult /\ Len(checkpoints) >= min_checkpoints) =>
               /\ last_call.outcome = "result"
               /\ VitalResultRate(last_call.result) = VitalRate
        /\ ([i \in 1..Len(checkpoints) |->
                <<Current(checkpoints[i]), checkpoints[i].ts>>]
            = <<<<200, 0>>, <<100, SecondsPerMinute>>,
                <<150, 2 * SecondsPerMinute>>,
                <<130, 3 * SecondsPerMinute>>>>) =>
               VitalRate = Int2Num(40)

\* the scenario 200, 100, 150, 130 read by HpAnalyzer.get_result
C14_Witness ==
    /\ kind = "hp" /\ IsGetResult /\ last_call.outcome = "result"
    /\ [i \in 1..Len(checkpoints) |-> checkpoints[i].current_hp]
       = <<200, 100, 150, 130>>
    /\ [i \in 1..Len(checkpoints) |-> checkpoints[i].ts]
       = <<0, SecondsPerMinute, 2 * SecondsPerMinute, 3 * SecondsPerMinute>>
    /\ last_call.result.hp_lost_per_minute = Int2Num(40)

\* C15 as stated: with at least 2 health or mana checkpoints and a summed
\* elapsed time of exactly 0 the rate is 0.0, a defined value; the rate is
\* undefined only when the window holds fewer than 2 checkpoints.
C15_ZeroElapsedIsZero ==
    IsVital =>
        /\ (Len(checkpoints) >= 2 /\ StatedElapsed(checkpoints) = 0) =>
               VitalRate = Int2Num(0)
        /\ VitalRate = None => Len(checkpoints) < 2

\* C15, amended: the health or mana rate is undefined (None) exactly when
\* the window holds fewer than 2 checkpoints or its summed elapsed time is
\* not positive; it is 0.0 only for a positive elapsed time without loss.
C15_NoElapsedIsNone ==
    IsVital =>
        /\ VitalRate = None <=>
               (Len(checkpoints) < 2 \/ StatedElapsed(checkpoints) <= 0)
        /\ VitalRate = Int2Num(0) =>
               /\ Len(checkpoints) >= 2
               /\ StatedElapsed(checkpoints) > 0
               /\ StatedLoss(checkpoints, Len(checkpoints)) = 0

\* get_result on a window whose timestamps differ and whose elapsed times
\* sum to 0, min_checkpoints being satisfied
C15_Witness ==
    /\ IsVital /\ IsGetResult
    /\ Len(checkpoints) >= 2 /\ Len(checkpoints) >= min_checkpoints
    /\ StatedElapsed(checkpoints) = 0
    /\ \E i \in 1..Len(checkpoints) : checkpoints[i].ts # checkpoints[1].ts
    /\ VitalRate = None
    /\ last_call.outcome = "None"

\* C16: when every checkpoint of a health or mana window of 2 or more has
\* the same timestamp, _compute_hp_lost_per_minute and
\* _compute_mp_lost_per_minute return None and get_result returns None, also
\* when min_checkpoints is satisfied and resource was lost.
C16_SameTimestampIsNone ==
    (IsVital /\ Len(checkpoints) >= 2
             /\ \A i \in 1..Len(checkpoints) :
                    checkpoints[i].ts = checkpoints[1].ts) =>
        /\ VitalRate = None
        /\ IsGetResult => last_call.outcome = "None"

\* get_result on a health window of one timestamp that lost health, with
\* min_checkpoints satisfied
C16_Witness ==
    /\ kind = "hp" /\ IsGetResult
    /\ Len(checkpoints) >= 2 /\ Len(checkpoints) >= min_checkpoints
    /\ \A i \in 1..Len(checkpoints) : checkpoints[i].ts = checkpoints[1].ts
    /\ StatedLoss(checkpoints, Len(checkpoints)) > 0
    /\ last_call.outcome = "None"

(***************************************************************************)
(* The projection as the specification states it.                          *)
(***************************************************************************)
\* the rates _compute_minutes_to_next_level is given: the window's own rate
\* when it is defined, and the rates the tests pass
RateSamples(cps, ind) ==
    {r \in {ComputeExpPerMinute(cps, ind)} : IsNum(r)}
        \cup {Int2Num(-10), Int2Num(0), Int2Num(100)}

\* total - last.exp <= 0, for last.exp_ratio > 0
StatedRemainingSpent(last) ==
    last.exp * RatioScale <= last.exp * last.exp_ratio

StatedMinutes(cps, rate) ==
    LET last == cps[Len(cps)]
    IN  IF last.exp_ratio <= 0 THEN None
        ELSE IF StatedRemainingSpent(last) THEN Int2Num(0)
        ELSE IF rate.num <= 0 THEN Inf
        ELSE Num((last.exp * RatioScale - last.exp * last.exp_ratio)
                     * rate.den,
                 last.exp_ratio * rate.num)

\* exp 100 then 200 with ratios 0.1 and 0.2 at level 10, 60 s apart
SimpleScenario ==
    <<ExpCheckpoint(10, 100, 1000, 0),
      ExpCheckpoint(10, 200, 2000, SecondsPerMinute)>>

\* C17: on a non-empty window minutes-to-next-level is undefined if the
\* total estimate is undefined; else 0 if total - last.exp <= 0, also when
\* the rate is <= 0; else +infinity if the rate is <= 0; else remaining /
\* rate.  For exp 100 then 200 with ratios 0.1 and 0.2 at level 10, 60 s
\* apart, the result has rate 100, ratio-rate 0.1 and 8 minutes.
C17_MinutesToNextLevel ==
    (kind = "exp" /\ checkpoints # <<>>
                  /\ Len(checkpoint_indicators) = Len(checkpoints)) =>
        /\ \A rate \in RateSamples(checkpoints, checkpoint_indicators) :
               ComputeMinutesToNextLevel(checkpoints, rate)
               = StatedMinutes(checkpoints, rate)
        /\ (IsGetResult /\ last_call.outcome = "result") =>
               \A m \in {StatedMinutes(checkpoints,
                                       last_call.result.exp_per_minute)} :
                   last_call.result.minutes_to_next_level
                   = IF m = None THEN NaN ELSE m
        /\ (IsGetResult /\ checkpoints = SimpleScenario) =>
               /\ last_call.outcome = "result"
               /\ last_call.result.exp_per_minute = Int2Num(100)
               /\ last_call.result.exp_ratio_per_minute = Num(1, 10)
               /\ last_call.result.minutes_to_next_level = Int2Num(8)

\* the simple scenario, read by get_result: 8 minutes to the next level
C17_Witness ==
    /\ kind = "exp" /\ IsGetResult
    /\ checkpoints = SimpleScenario
    /\ last_call.outcome = "result"
    /\ last_call.result.minutes_to_next_level = Int2Num(8)

\* the experience window holds enough checkpoints for get_result, its rate
\* is defined and its newest checkpoint has exp_ratio <= 0
RateWithoutTotal ==
    /\ kind = "exp" /\ IsGetResult
    /\ checkpoints # <<>> /\ Len(checkpoints) >= min_checkpoints
    /\ IsNum(ComputeExpPerMinute(checkpoints, checkpoint_indicators))
    /\ checkpoints[Len(checkpoints)].exp_ratio <= 0

\* current_exp, current_level and exp_per_minute of the result carry the
\* newest checkpoint's values and the window's rate
NormalFields ==
    /\ last_call.outcome = "result"
    /\ last_call.result.current_exp = checkpoints[Len(checkpoints)].exp
    /\ last_call.result.current_level = checkpoints[Len(checkpoints)].level
    /\ last_call.result.exp_per_minute
       = ComputeExpPerMinute(checkpoints, checkpoint_indicators)

\* C18 as stated: whenever the rate is defined and the total estimate is
\* undefined, get_result returns a result whose exp_ratio_per_minute and
\* minutes_to_next_level are both NaN, the other fields being normal.
C18_BothNaN ==
    RateWithoutTotal =>
        /\ NormalFields
        /\ last_call.result.exp_ratio_per_minute = NaN
        /\ last_call.result.minutes_to_next_level = NaN

\* C18, amended: whenever the rate is defined and the total estimate is
\* undefined, get_result returns a result whose minutes_to_next_level is NaN
\* and whose exp_ratio_per_minute is NaN when the rate is not 0 and 0 when
\* the rate is 0, the other fields being normal.
C18_NaNUnlessZeroRate ==
    RateWithoutTotal =>
        /\ NormalFields
        /\ last_call.result.minutes_to_next_level = NaN
        /\ last_call.result.exp_ratio_per_minute
           = IF NumIsZero(last_call.result.exp_per_minute)
             THEN Int2Num(0) ELSE NaN

\* a result with a rate other than 0 and both projections NaN
C18_Witness ==
    /\ RateWithoutTotal
    /\ last_call.outcome = "result"
    /\ ~NumIsZero(last_call.result.exp_per_minute)
    /\ last_call.result.exp_ratio_per_minute = NaN
    /\ last_call.result.minutes_to_next_level = NaN

\* the newest checkpoint of a non-empty window
Newest(cps) == cps[Len(cps)]

\* C19: the total estimate depends only on the newest checkpoint of the
\* window: it is last.exp / last.exp_ratio when last.exp_ratio > 0 and
\* undefined otherwise, whatever the earlier checkpoints are and whether or
\* not the filter flagged the newest checkpoint invalid; the result's
\* current_exp and current_level are those of the newest checkpoint.
C19_TotalFromNewest ==
    (kind = "exp" /\ checkpoints # <<>>) =>
        /\ ComputeTotalExp(checkpoints)
           = IF Newest(checkpoints).exp_ratio > 0
             THEN Num(Newest(checkpoints).exp * RatioScale,
                      Newest(checkpoints).exp_ratio)
             ELSE None
        /\ ComputeTotalExp(checkpoints)
           = ComputeTotalExp(<<Newest(checkpoints)>>)
        /\ (IsGetResult /\ last_call.outcome = "result") =>
               /\ last_call.result.current_exp = Newest(checkpoints).exp
               /\ last_call.result.current_level = Newest(checkpoints).level
               /\ (Newest(checkpoints).exp_ratio > 0
                   /\ Newest(checkpoints).exp > 0
                   /\ ~NumIsZero(last_call.result.exp_per_minute)) =>
                      last_call.result.exp_ratio_per_minute
                      = NumDiv(last_call.result.exp_per_minute,
                               Num(Newest(checkpoints).exp * RatioScale,
                                   Newest(checkpoints).exp_ratio))

\* a result read from a filtered window whose newest checkpoint is flagged
\* invalid and differs from the oldest
C19_Witness ==
    /\ kind = "exp" /\ IsGetResult /\ last_call.outcome = "result"
    /\ Len(checkpoints) >= MinFilterLen
    /\ Len(checkpoint_indicators) = Len(checkpoints)
    /\ ~checkpoint_indicators[Len(checkpoints)]
    /\ Newest(checkpoints).exp_ratio > 0
    /\ checkpoints[1] # Newest(checkpoints)
    /\ last_call.result.current_exp = Newest(checkpoints).exp

\* C20: reset, called in any reachable state, empties the window, and for
\* ExpAnalyzer checkpoint_indicators as well; an ExpAnalyzer.get_result
\* immediately after it raises the empty-window ValueError, exactly as on a
\* freshly constructed analyzer.
C20_ResetEmpties ==
    [][/\ last_call'.op = "reset" =>
              /\ checkpoints' = <<>>
              /\ kind = "exp" => checkpoint_indicators' = <<>>
       /\ (kind = "exp" /\ last_call.op = "reset"
                        /\ last_call'.op = "get_result") =>
              /\ last_call'.outcome = "ValueError"
              /\ last_call' = ExpGetResultOutcome(<<>>, <<>>, min_checkpoints)
      ]_vars

\* an ExpAnalyzer that reset has just emptied
C20_Witness ==
    /\ kind = "exp" /\ last_call.op = "reset"
    /\ checkpoints = <<>> /\ checkpoint_indicators = <<>>

\* timestamps non-decreasing by index
TsSorted(cps) == \A i \in 2..Len(cps) : cps[i - 1].ts <= cps[i].ts

AreaTexts(capture) == IF kind = "hp" THEN capture.hp ELSE capture.mp

\* the value of a string of decimal digits
RECURSIVE Decimal(_, _)
Decimal(digits, i) ==
    IF i > Len(digits) THEN 0
    ELSE DigitValue(digits[i]) * 10 ^ (Len(digits) - i)
         + Decimal(digits, i + 1)

\* s reads "[" digits "/" digits "]" rest, the "/" at index a and the "]"
\* at index b, rest on the same line
Shaped(s, a, b) ==
    /\ 2 < a /\ a + 1 < b /\ b <= Len(s)
    /\ s[1] = "[" /\ s[a] = "/" /\ s[b] = "]"
    /\ \A j \in (2..(a - 1)) \cup ((a + 1)..(b - 1)) : IsDigit(s[j])
    /\ \A j \in (b + 1)..(Len(s) - 1) : s[j] # "\n"

\* a text parses when, spaces apart, it has that shape
TextParses(text) ==
    \E a, b \in 1..Len(text) :
        Shaped(SelectSeq(text, LAMBDA c : c # " "), a, b)

\* the pair (current, total) a parsing text states
StatedPair(text) ==
    LET s == SelectSeq(text, LAMBDA c : c # " ")
        ab == CHOOSE ab \in (1..Len(s)) \X (1..Len(s)) :
                  Shaped(s, ab[1], ab[2])
    IN  <<Decimal(SubSeq(s, 2, ab[1] - 1), 1),
          Decimal(SubSeq(s, ab[1] + 1, ab[2] - 1), 1)>>

\* the first parsing text among the texts of an area
FirstParsing(texts) ==
    texts[CHOOSE k \in 1..Len(texts) :
              /\ TextParses(texts[k])
              /\ \A j \in 1..(k - 1) : ~TextParses(texts[j])]

\* the current and total of an HpCheckpoint or MpCheckpoint
CheckpointPair(checkpoint) ==
    IF kind = "hp"
    THEN <<checkpoint.current_hp, checkpoint.total_hp>>
    ELSE <<checkpoint.current_mp, checkpoint.total_mp>>

IsFromAppCaptures == last_call.op = "from_app_captures"

\* C22: from_app_captures raises ValueError, before any crop or OCR call,
\* when a ts_list is given whose length differs from the captures';
\* otherwise it returns one entry per capture, entry i being None exactly
\* when no text read in capture i parses and otherwise the checkpoint of the
\* first parsing text of capture i with timestamp ts_list[i] (the clock
\* when no ts_list is given); an empty capture list yields an empty list.
C22_FromAppCaptures ==
    IsFromAppCaptures =>
        LET captures == last_call.arg.captures
            ts_list == last_call.arg.ts_list
            r == last_call.result
        IN  IF ts_list.given /\ Len(ts_list.list) # Len(captures)
            THEN /\ last_call.outcome = "ValueError"
                 /\ r.crops = 0 /\ r.ocr_calls = 0
            ELSE /\ last_call.outcome = "ok"
                 /\ Len(r.checkpoints) = Len(captures)
                 /\ captures = <<>> => r.checkpoints = <<>>
                 /\ \A i \in 1..Len(captures) :
                        LET texts == AreaTexts(captures[i])
                        IN  IF \A k \in 1..Len(texts) : ~TextParses(texts[k])
                            THEN r.checkpoints[i] = NoCheckpoint
                            ELSE /\ r.checkpoints[i] # NoCheckpoint
                                 /\ CheckpointPair(r.checkpoints[i])
                                    = StatedPair(FirstParsing(texts))
                                 /\ r.checkpoints[i].ts
                                    = IF ts_list.given THEN ts_list.list[i]
                                      ELSE last_call.arg.now

\* a list returned for three captures with a None between two checkpoints
\* that carry different timestamps of the ts_list
C22_Witness ==
    /\ IsFromAppCaptures /\ last_call.outcome = "ok"
    /\ last_call.arg.ts_list.given
    /\ Len(last_call.result.checkpoints) = 3
    /\ last_call.result.checkpoints[1] # NoCheckpoint
    /\ last_call.result.checkpoints[2] = NoCheckpoint
    /\ last_call.result.checkpoints[3] # NoCheckpoint
    /\ last_call.result.checkpoints[1].ts # last_call.result.checkpoints[3].ts

\* the validity vector as a function of the window alone
WindowFlags(cps) ==
    IF Len(cps) < MinFilterLen THEN [i \in 1..Len(cps) |-> TRUE]
    ELSE StatedFlags(cps)

\* C23: after every ExpAnalyzer.add_checkpoint that returns,
\* checkpoint_indicators is a function of the window contents alone,
\* whatever the history of insertions, evictions, resets and failed
\* insertions that led to the window, and a get_result that follows
\* returns what the window, that function of it and min_checkpoints
\* determine.
C23_FlagsFromWindowAlone ==
    [][/\ (/\ kind = "exp"
           /\ last_call'.op = "add_checkpoint"
           /\ last_call'.outcome = "ok")
          => checkpoint_indicators' = WindowFlags(checkpoints')
       /\ (/\ kind = "exp" /\ IsAdd /\ last_call.outcome = "ok"
           /\ last_call'.op = "get_result")
          => last_call' = ExpGetResultOutcome(checkpoints,
                                              WindowFlags(checkpoints),
                                              min_checkpoints)
      ]_vars

\* a result read right after an insertion that evicted and left a window
\* with a valid and an invalid member
C23_Witness ==
    /\ kind = "exp" /\ IsGetResult /\ last_call.outcome = "result"
    /\ Len(checkpoints) = max_checkpoints
    /\ Len(checkpoints) >= MinFilterLen
    /\ Len(checkpoint_indicators) = Len(checkpoints)
    /\ \E i, j \in 1..Len(checkpoints) :
           checkpoint_indicators[i] /\ ~checkpoint_indicators[j]

\* a window of b checkpoints implying 5000 followed by a implying 1000
FlipWindow(b, a) ==
    [i \in 1..(b + a) |->
        IF i <= b THEN CheckpointFiveThousand ELSE CheckpointThousand]

\* half of the window capacity, rounded up
FlipHalf == (max_checkpoints + 1) \div 2

\* the next call is add_checkpoint of the checkpoint implying 1000
AddsThousand ==
    /\ last_call'.op = "add_checkpoint"
    /\ last_call'.arg = CheckpointThousand
    /\ last_call'.outcome = "ok"

\* C24: validity flags are not monotone.  Inserting checkpoints that imply
\* 1000 after three that imply 5000: the fourth checkpoint of the window,
\* flagged valid in the window of 4, is flagged invalid by the insertion
\* that makes the window 5 long (median 5000), and, still in the window, is
\* flagged valid again by the insertion that makes it 7 long (median 1000);
\* in a full window whose first half (rounded up) implies 5000, a
\* checkpoint flagged invalid becomes valid when an insertion evicts a
\* sibling implying 5000.
C24_FlagsNotMonotone ==
    [][/\ (checkpoints = FlipWindow(3, 1) /\ AddsThousand) =>
              /\ checkpoints'[4] = checkpoints[4]
              /\ checkpoint_indicators[4]
              /\ ~checkpoint_indicators'[4]
       /\ (checkpoints = FlipWindow(3, 3) /\ AddsThousand) =>
              /\ checkpoints'[4] = checkpoints[4]
              /\ ~checkpoint_indicators[4]
              /\ checkpoint_indicators'[4]
       /\ (checkpoints = FlipWindow(FlipHalf, max_checkpoints - FlipHalf)
           /\ AddsThousand) =>
              /\ checkpoints'[FlipHalf] = checkpoints[FlipHalf + 1]
              /\ ~checkpoint_indicators[FlipHalf + 1]
              /\ checkpoint_indicators'[FlipHalf]
      ]_vars

\* the window of three and four, just made by an insertion: the fourth
\* checkpoint is valid again and the first has become invalid
C24_Witness ==
    /\ kind = "exp" /\ IsAdd /\ last_call.outcome = "ok"
    /\ Len(checkpoints) < max_checkpoints
    /\ checkpoints = FlipWindow(3, 4)
    /\ checkpoint_indicators[4]
    /\ ~checkpoint_indicators[1]

\* C25 as stated: after every add_checkpoint the window holds at most
\* config.max_checkpoints checkpoints, also when the caller has changed
\* config.max_checkpoints between calls.
C25_BoundedAfterReconfigure ==
    IsAdd => Len(checkpoints) <= max_checkpoints

\* C26: get_result, whether it returns a result, returns None or raises,
\* leaves checkpoints, checkpoint_indicators and the configuration as they
\* were; add_checkpoint changes the window only at its two ends: index 0
\* is removed (only if the window was full) and the new checkpoint is
\* appended, every checkpoint that stays is the one that was there, in the
\* same order; a call that returned has appended the new checkpoint.
C26_Frame ==
    [][/\ last_call'.op = "get_result" =>
              /\ checkpoints' = checkpoints
              /\ checkpoint_indicators' = checkpoint_indicators
              /\ max_checkpoints' = max_checkpoints
              /\ min_checkpoints' = min_checkpoints
       /\ last_call'.op = "add_checkpoint" =>
              /\ max_checkpoints' = max_checkpoints
              /\ min_checkpoints' = min_checkpoints
              /\ \E k \in {0, 1} :
                     /\ k = 1 => Len(checkpoints) >= max_checkpoints
                     /\ k <= Len(checkpoints)
                     /\ \/ Len(checkpoints') = Len(checkpoints) - k
                        \/ /\ Len(checkpoints') = Len(checkpoints) - k + 1
                           /\ Newest(checkpoints') = last_call'.arg
                     /\ \A i \in 1..(Len(checkpoints) - k) :
                            checkpoints'[i] = checkpoints[i + k]
              /\ last_call'.outcome = "ok" =>
                     /\ Len(checkpoints') >= 1
                     /\ Newest(checkpoints') = last_call'.arg
                     /\ Len(checkpoints') =
                            IF Len(checkpoints) >= max_checkpoints
                            THEN Len(checkpoints) ELSE Len(checkpoints) + 1
      ]_vars

\* a get_result that raised on a full window whose flags are stale
C26_Witness ==
    /\ kind = "exp" /\ IsGetResult /\ last_call.outcome = "IndexError"
    /\ Len(checkpoints) = max_checkpoints
    /\ Len(checkpoint_indicators) < Len(checkpoints)

\* C27 as stated: in the HP and MP pipelines the frame and timestamp
\* buffers always have equal length and never hold more than batch_size
\* entries (the batch size is MpAnalyzerConfig's; HpAnalyzerConfig has
\* none), and a callback that got a capture ends without an exception.
C27_BuffersBounded ==
    kind \in {"hp", "mp"} =>
        /\ Len(capture_buffer) = Len(ts_buffer)
        /\ Len(capture_buffer) <= MpBatchSize
        /\ (tick.ran /\ tick.captured) => tick.raised = "none"

\* C28 as stated: in the experience callback get_result is called only
\* right after an add_checkpoint of the same callback, a callback whose
\* capture or parse fails makes neither call, get_result never raises the
\* empty-window ValueError, and every callback whose capture and parse
\* succeed makes exactly one add_checkpoint and one get_result.
C28_OnePairPerTick ==
    kind = "exp" =>
        /\ tick.calls \in {<<>>, <<"add_checkpoint">>,
                           <<"add_checkpoint", "get_result">>}
        /\ ~(tick.ran /\ tick.captured /\ tick.parsed) => tick.calls = <<>>
        /\ tick.raised # "ValueError"
        /\ (tick.ran /\ tick.captured /\ tick.parsed) =>
               tick.calls = <<"add_checkpoint", "get_result">>

\* C29: in each pipeline, driven through its toggle handler, the running
\* flag is true exactly when the timer is not None; a start empties the
\* analyzer window (and the flags of ExpAnalyzer, and the capture buffers
\* of HP and MP) in the handler itself, before any callback; a stop leaves
\* the window as it is; a callback invoked while the flag is false captures
\* nothing and calls nothing, and from a stop to the next start the window,
\* the flags and the buffers do not change.
C29_ToggleDiscipline ==
    [][/\ is_running <=> timer # "None"
       /\ is_running' <=> timer' # "None"
       /\ (~is_running /\ is_running') =>
              /\ checkpoints' = <<>>
              /\ checkpoint_indicators' = <<>>
              /\ capture_buffer' = <<>> /\ ts_buffer' = <<>>
              /\ tick' = tick
       /\ (is_running /\ ~is_running') =>
              /\ checkpoints' = checkpoints
              /\ checkpoint_indicators' = checkpoint_indicators
              /\ tick' = tick
       /\ (~is_running /\ ~is_running') =>
              /\ checkpoints' = checkpoints
              /\ checkpoint_indicators' = checkpoint_indicators
              /\ capture_buffer' = capture_buffer
              /\ ts_buffer' = ts_buffer
              /\ last_call' = last_call
              /\ tick'.fired /\ ~tick'.ran /\ ~tick'.captured
              /\ tick'.calls = <<>>
      ]_vars

\* a stopped pipeline with a non-empty window, after a callback that
\* returned at once
C29_Witness ==
    /\ ~is_running /\ timer = "None"
    /\ tick.fired /\ ~tick.ran
    /\ checkpoints # <<>>

\* an HpCheckpoint with its fields renamed to those of an MpCheckpoint
AsMpCheckpoint(checkpoint) ==
    MpCheckpoint(checkpoint.current_hp, checkpoint.total_hp, checkpoint.ts)

AsMpWindow(cps) == [i \in 1..Len(cps) |-> AsMpCheckpoint(cps[i])]

\* the outcome of an HpAnalyzer call with its fields renamed
AsMpCall(call) ==
    Call(call.op,
         IF call.op = "add_checkpoint" THEN AsMpCheckpoint(call.arg)
         ELSE call.arg,
         call.outcome,
         IF call.outcome = "result"
         THEN MpAnalyzerResult(call.result.current_hp, call.result.total_hp,
                               call.result.hp_lost_per_minute)
         ELSE call.result)

\* C30: an MpAnalyzer run side by side with the HpAnalyzer, with the same
\* max_checkpoints and min_checkpoints and holding the same window up to
\* the renaming of the fields, answers every call of the HpAnalyzer the
\* same way: reset empties both, add_checkpoint leaves the same window and
\* the same outcome, get_result returns the same rate, current and total,
\* or None (or raises) in both.
C30_HpMpEquivalent ==
    [][kind = "hp" =>
          /\ last_call'.op = "reset" => checkpoints' = <<>>
          /\ last_call'.op = "add_checkpoint" =>
                 LET e == MpAddCheckpointEffect(AsMpWindow(checkpoints),
                                                max_checkpoints,
                                                AsMpCheckpoint(last_call'.arg))
                 IN  /\ e.checkpoints = AsMpWindow(checkpoints')
                     /\ e.outcome = last_call'.outcome
          /\ last_call'.op = "get_result" =>
                 /\ checkpoints' = checkpoints
                 /\ MpGetResultOutcome(AsMpWindow(checkpoints),
                                       min_checkpoints)
                    = AsMpCall(last_call')
      ]_vars

\* an HpAnalyzer result with a rate above 0 read from a window with a gain
\* and a loss
C30_Witness ==
    /\ kind = "hp" /\ IsGetResult /\ last_call.outcome = "result"
    /\ NumPositive(last_call.result.hp_lost_per_minute)
    /\ \E i, j \in 2..Len(checkpoints) :
           /\ checkpoints[i].current_hp > checkpoints[i - 1].current_hp
           /\ checkpoints[j].current_hp < checkpoints[j - 1].current_hp

====
